---- MODULE Spec2Model ----
(***************************************************************************)
(* Model of DirectoryTreeVisualizer (src/directory_tree_visualizer.py):    *)
(* the recursive directory scanner with its filters and aggregates.        *)
(*                                                                         *)
(* A name is a sequence of one-character strings, a path is a sequence of  *)
(* names (its components below "/"), an optional value is <<>> (None) or   *)
(* <<v>> (the value v).                                                    *)
(***************************************************************************)
EXTENDS Integers, Sequences, FiniteSets, TLC

VARIABLES
    fs,            \* the filesystem: entry id -> [parent, name, kind, size, mtime]
    options,       \* the filter arguments this run's scans are called with
    tree_data,     \* self.tree_data   (optional node)
    root_path,     \* self.root_path   (optional path)
    file_count,    \* self.file_count
    folder_count,  \* self.folder_count
    total_size,    \* self.total_size
    last_call,     \* the latest scan_directory call: its arguments and its outcome
    render_options,\* the arguments this run's render_text_tree calls are made with
    outputs,       \* what the render and export calls since the latest scan gave
    threads,       \* the scan threads of the GUI: thread -> its position and locals
    is_scanning,   \* the GUI's self.is_scanning
    calls,         \* how many scan_directory calls were made (counted where the
                   \* arguments vary from call to call)
    size_arg,      \* the argument of a format_size call made on its own
    size_text,     \* what that call returned (optional text)
    stack,         \* the frames of _scan_recursive of a scan that is under way,
                   \* the innermost last
    gui            \* the widgets of the GUI: status bar, results area, buttons

vars == <<fs, options, tree_data, root_path, file_count, folder_count, total_size, last_call,
          render_options, outputs, threads, is_scanning, calls, size_arg, size_text, stack, gui>>

\* ------------------------------------------------------------------ bounds
MaxFileSize == 3    \* file sizes range over 0..MaxFileSize
MaxDepthArg == 1    \* max_depth ranges over None and 0..MaxDepthArg
MaxLineWidth == 4   \* max_width ranges over 1..MaxLineWidth, 12 and 100
MaxCalls == 3       \* calls with varying arguments: at most MaxCalls in a run
MaxDigits == 5      \* format_size is called on sizes below 1024^MaxDigits
MaxElements == 16   \* a click goes to one of the first MaxElements elements of a page
RecursionLimit == 4 \* the interpreter's recursion limit (1000 frames by default),
                    \* in frames of _scan_recursive

\* ------------------------------------------------------------ optional values
None == <<>>
Some(v) == <<v>>
IsNone(o) == o = <<>>
Val(o) == o[1]

\* ------------------------------------------------------------------ strings
\* Code points of the characters the model's names are made of.
Ord(c) ==
    CASE c = "." -> 46
      [] c = "A" -> 65
      [] c = "D" -> 68
      [] c = "P" -> 80
      [] c = "a" -> 97
      [] c = "b" -> 98
      [] c = "d" -> 100
      [] c = "e" -> 101
      [] c = "h" -> 104
      [] c = "n" -> 110
      [] c = "p" -> 112
      [] c = "s" -> 115
      [] c = "t" -> 116

\* str.lower() on one character
LowerChar(c) ==
    CASE c = "A" -> "a"
      [] c = "D" -> "d"
      [] c = "P" -> "p"
      [] OTHER -> c

\* str.lower()
Lower(s) == [i \in DOMAIN s |-> LowerChar(s[i])]

\* Python's s < t on strings: lexicographic by code point
RECURSIVE StrLess(_, _)
StrLess(s, t) ==
    IF t = <<>> THEN FALSE
    ELSE IF s = <<>> THEN TRUE
    ELSE IF Ord(Head(s)) /= Ord(Head(t)) THEN Ord(Head(s)) < Ord(Head(t))
    ELSE StrLess(Tail(s), Tail(t))

\* str.startswith('.')
StartsWithDot(name) == Len(name) > 0 /\ name[1] = "."

\* str.rfind('.'), 1-based, 0 when there is no dot
RFindDot(name) ==
    LET dots == {i \in DOMAIN name : name[i] = "."}
    IN  IF dots = {} THEN 0 ELSE CHOOSE i \in dots : \A j \in dots : j <= i

\* pathlib's PurePath.suffix: the part from the last dot on, unless that dot is
\* the first or the last character of the name
Suffix(name) ==
    LET i == RFindDot(name)
    IN  IF 1 < i /\ i < Len(name) THEN SubSeq(name, i, Len(name)) ELSE <<>>

\* --------------------------------------------------------------- filesystem
\* Names of the entries
NameRoot == <<>>                      \* Path("/").name == ''
NameHiddenDir == <<".", "h">>
NameD == <<"d">>
NameUpperD == <<"D">>
NameAP == <<"a", ".", "p">>
NameUpperAP == <<"A", ".", "P">>
NameAT == <<"a", ".", "t">>
NameE == <<"e">>
NameDotP == <<".", "p">>
NameS == <<"s">>
NameMissing == <<"n">>
NameBack == <<"b">>

\* (an entry's modification time is not varied: it is set to its size);
\* denied: listing the directory, or stat() on the file, raises PermissionError;
\* target: the entry a symbolic link points to, 0 for what is no link
Entry(parent, name, kind, size) ==
    [parent |-> parent, name |-> name, kind |-> kind, size |-> size, mtime |-> size,
     denied |-> FALSE, target |-> 0]

\* a symbolic link to the entry target
SymLink(parent, name, target) == [Entry(parent, name, "link", 0) EXCEPT !.target = target]

\* The directory structures scanned: "/" holds the hidden directory .h (with a
\* file), the directories d and D, the files a.p and A.P and the hidden file
\* .p; d holds the directory e (with a file) and s, a plain file or a socket.
BaseFileSystem(s1, s2, k) ==
    <<Entry(0, NameRoot, "dir", 0),
      Entry(1, NameHiddenDir, "dir", 0),
      Entry(1, NameD, "dir", 0),
      Entry(1, NameAP, "file", s1),
      Entry(1, NameUpperAP, "file", 2),
      Entry(2, NameAT, "file", 1),
      Entry(3, NameE, "dir", 0),
      Entry(1, NameDotP, "file", 1),
      Entry(7, NameAT, "file", s2),
      Entry(3, NameS, k, 3),
      Entry(1, NameUpperD, "dir", 0)>>

\* the structure f with entry id made inaccessible
Deny(f, id) == [f EXCEPT ![id].denied = TRUE]

\* Besides the sizes of a.p and of d/e/a.t, the structures differ in one
\* respect: s is a plain file, s is a socket, the directory d/e cannot be
\* listed, or stat() fails on the file A.P.
FileSystems ==
    { BaseFileSystem(s1, s2, "file") : s1 \in 0..MaxFileSize, s2 \in {1, MaxFileSize} }
    \cup { BaseFileSystem(s1, s2, "other") : s1 \in 0..MaxFileSize, s2 \in {1, MaxFileSize} }
    \cup { Deny(BaseFileSystem(s1, s2, "file"), 7) :
             s1 \in 0..MaxFileSize, s2 \in {1, MaxFileSize} }
    \cup { Deny(BaseFileSystem(s1, s2, "file"), 5) :
             s1 \in 0..MaxFileSize, s2 \in {1, MaxFileSize} }

Ids(f) == DOMAIN f

\* the path of an entry: the names from "/" down to it
RECURSIVE PathOf(_, _)
PathOf(f, id) ==
    IF f[id].parent = 0 THEN <<>> ELSE Append(PathOf(f, f[id].parent), f[id].name)

\* the entry a path names, 0 when there is none (Path.exists() is false)
Lookup(f, path) ==
    IF \E id \in Ids(f) : PathOf(f, id) = path
    THEN CHOOSE id \in Ids(f) : PathOf(f, id) = path
    ELSE 0

\* what the operating system finds at entry id: a link is followed
Resolve(f, id) == IF f[id].kind = "link" THEN f[id].target ELSE id

\* Path.is_dir() and Path.is_file() follow symbolic links
is_dir(f, id) == f[Resolve(f, id)].kind = "dir"
is_file(f, id) == f[Resolve(f, id)].kind = "file"

\* path.iterdir() raises PermissionError (an OSError) on directory id
iterdir_raises(f, id) == f[Resolve(f, id)].denied

\* item.stat() raises PermissionError (an OSError) on file id
stat_raises(f, id) == f[Resolve(f, id)].denied

\* The orders in which the operating system may list a directory
IterOrders == {"forward", "backward"}

RECURSIVE Ascending(_)
Ascending(S) ==
    IF S = {} THEN <<>>
    ELSE LET m == CHOOSE x \in S : \A y \in S : x <= y
         IN  <<m>> \o Ascending(S \ {m})

Reverse(s) == [i \in DOMAIN s |-> s[Len(s) + 1 - i]]

\* list(path.iterdir()): the entries of a directory, in the order the
\* operating system lists them
iterdir(f, id, ord) ==
    LET asc == Ascending({c \in Ids(f) : f[c].parent = Resolve(f, id)})
    IN  IF ord = "forward" THEN asc ELSE Reverse(asc)

\* ------------------------------------------------------------------ scanner
\* The filter arguments of scan_directory
MaxDepths == {None} \cup {Some(k) : k \in 0..MaxDepthArg}
ExtensionLists == {None, Some(<<>>), Some(<<NameDotP>>), Some(<<<<".", "P">>>>)}
SizeFilters == {None, Some(<<1, 2>>)}
Configs ==
    [max_depth : MaxDepths, show_hidden : BOOLEAN, include_files : BOOLEAN,
     extensions : ExtensionLists, size_filter : SizeFilters]

\* the fresh directory node of scan_recursive
NewDirNode(f, id) ==
    [name |-> f[id].name, path |-> PathOf(f, id), type |-> "directory", size |-> 0,
     children |-> <<>>, file_count |-> 0, folder_count |-> 0]

\* (mutation: the limit is taken one level too late)
DepthReached_OneTooDeep(current_depth, max_depth) ==
    ~IsNone(max_depth) /\ current_depth > Val(max_depth)

\* max_depth is not None and current_depth >= max_depth
DepthReached(current_depth, max_depth) ==
    ~IsNone(max_depth) /\ current_depth >= Val(max_depth)

\* (mutation: the key is the lower-cased name alone)
KeyLess_NameOnly(f, x, y) == StrLess(Lower(f[x].name), Lower(f[y].name))

\* the sort key (x.is_file(), x.name.lower()) of x is smaller than that of y
KeyLess(f, x, y) ==
    IF is_file(f, x) /= is_file(f, y) THEN ~is_file(f, x)
    ELSE StrLess(Lower(f[x].name), Lower(f[y].name))

\* list.sort is stable: an item goes before the first one whose key is larger
RECURSIVE InsertSorted(_, _, _)
InsertSorted(f, sorted, x) ==
    IF sorted = <<>> THEN <<x>>
    ELSE IF KeyLess(f, x, Head(sorted)) THEN <<x>> \o sorted
    ELSE <<Head(sorted)>> \o InsertSorted(f, Tail(sorted), x)

RECURSIVE SortItems(_, _)
SortItems(f, items) ==
    IF items = <<>> THEN <<>>
    ELSE InsertSorted(f, SortItems(f, SubSeq(items, 1, Len(items) - 1)),
                      items[Len(items)])

\* (mutation: only hidden files are skipped, hidden directories are scanned)
SkipHidden_FilesOnly(f, id, cfg) ==
    ~cfg.show_hidden /\ StartsWithDot(f[id].name) /\ is_file(f, id)

\* not show_hidden and item.name.startswith('.')
SkipHidden(f, id, cfg) == ~cfg.show_hidden /\ StartsWithDot(f[id].name)

\* (mutation: the suffix is compared without lower())
SkipExtension_CaseSensitive(f, id, cfg) ==
    LET exts == cfg.extensions
    IN  /\ ~IsNone(exts)
        /\ Val(exts) /= <<>>
        /\ ~\E i \in DOMAIN Val(exts) : Suffix(f[id].name) = Val(exts)[i]

\* extensions and item.suffix.lower() not in [ext.lower() for ext in extensions]
SkipExtension(f, id, cfg) ==
    LET exts == cfg.extensions
    IN  /\ ~IsNone(exts)
        /\ Val(exts) /= <<>>
        /\ ~\E i \in DOMAIN Val(exts) : Lower(Suffix(f[id].name)) = Lower(Val(exts)[i])

\* (mutation: the bounds are exclusive)
SkipSize_Exclusive(f, id, cfg) ==
    LET sf == cfg.size_filter
    IN  /\ ~IsNone(sf)
        /\ (f[id].size <= Val(sf)[1] \/ f[id].size >= Val(sf)[2])

\* size_filter given and (file_size < min_size or file_size > max_size)
SkipSize(f, id, cfg) ==
    LET sf == cfg.size_filter
    IN  /\ ~IsNone(sf)
        /\ (f[id].size < Val(sf)[1] \/ f[id].size > Val(sf)[2])

FileNode(f, id) ==
    [name |-> f[id].name, path |-> PathOf(f, id), type |-> "file", size |-> f[id].size,
     extension |-> Suffix(f[id].name), modified |-> f[id].mtime]

\* The state of one scan_recursive call together with the counters of self it
\* has touched: acc.node is the node under construction.
\* (mutation: the child directory's size is not added to the parent's)
AddDirectory_NoSize(acc, child) ==
    [node |-> [acc.node EXCEPT !.children = Append(@, child.node),
                               !.file_count = @ + child.node.file_count,
                               !.folder_count = @ + child.node.folder_count + 1],
     file_count |-> acc.file_count + child.file_count,
     folder_count |-> acc.folder_count + child.folder_count + 1,
     total_size |-> acc.total_size + child.total_size]

\* (mutation: the parent's folder_count misses the child directory itself)
AddDirectory_NoPlusOne(acc, child) ==
    [node |-> [acc.node EXCEPT !.children = Append(@, child.node),
                               !.size = @ + child.node.size,
                               !.file_count = @ + child.node.file_count,
                               !.folder_count = @ + child.node.folder_count],
     file_count |-> acc.file_count + child.file_count,
     folder_count |-> acc.folder_count + child.folder_count + 1,
     total_size |-> acc.total_size + child.total_size]

\* (mutation: a child directory that came back without children is left out)
AddDirectory_OnlyWithChildren(acc, child) ==
    IF child.node.children = <<>> THEN acc
    ELSE [node |-> [acc.node EXCEPT !.children = Append(@, child.node),
                                    !.size = @ + child.node.size,
                                    !.file_count = @ + child.node.file_count,
                                    !.folder_count = @ + child.node.folder_count + 1],
          file_count |-> acc.file_count + child.file_count,
          folder_count |-> acc.folder_count + child.folder_count + 1,
          total_size |-> acc.total_size + child.total_size]

AddDirectory(acc, child) ==
    [node |-> [acc.node EXCEPT !.children = Append(@, child.node),
                               !.size = @ + child.node.size,
                               !.file_count = @ + child.node.file_count,
                               !.folder_count = @ + child.node.folder_count + 1],
     file_count |-> acc.file_count + child.file_count,
     folder_count |-> acc.folder_count + child.folder_count + 1,
     total_size |-> acc.total_size + child.total_size]

\* (mutation: self.total_size is not updated for a file)
AddFile_NoTotalSize(acc, file_node) ==
    [node |-> [acc.node EXCEPT !.children = Append(@, file_node),
                               !.size = @ + file_node.size,
                               !.file_count = @ + 1],
     file_count |-> acc.file_count + 1,
     folder_count |-> acc.folder_count,
     total_size |-> acc.total_size]

AddFile(acc, file_node) ==
    [node |-> [acc.node EXCEPT !.children = Append(@, file_node),
                               !.size = @ + file_node.size,
                               !.file_count = @ + 1],
     file_count |-> acc.file_count + 1,
     folder_count |-> acc.folder_count,
     total_size |-> acc.total_size + file_node.size]

RECURSIVE scan_recursive(_, _, _, _, _)
RECURSIVE ScanItems(_, _, _, _, _, _)

\* the loop "for item in items" of scan_recursive
ScanItems(f, items, current_depth, cfg, ord, acc) ==
    IF items = <<>> THEN acc
    ELSE LET item == Head(items)
             rest == Tail(items)
         IN  IF SkipHidden(f, item, cfg)
             THEN ScanItems(f, rest, current_depth, cfg, ord, acc)
             ELSE IF is_dir(f, item)
             THEN ScanItems(f, rest, current_depth, cfg, ord,
                      AddDirectory(acc, scan_recursive(f, item, current_depth + 1, cfg, ord)))
             ELSE IF cfg.include_files /\ is_file(f, item)
             THEN IF stat_raises(f, item)
                       \/ SkipExtension(f, item, cfg) \/ SkipSize(f, item, cfg)
                  THEN ScanItems(f, rest, current_depth, cfg, ord, acc)
                  ELSE ScanItems(f, rest, current_depth, cfg, ord,
                           AddFile(acc, FileNode(f, item)))
             ELSE ScanItems(f, rest, current_depth, cfg, ord, acc)

\* scan_recursive: the node of directory id, and what the call adds to
\* self.file_count, self.folder_count and self.total_size; when listing the
\* directory raises, "except (OSError, PermissionError): pass" leads to
\* "return node" with the node still empty
scan_recursive(f, id, current_depth, cfg, ord) ==
    LET start == [node |-> NewDirNode(f, id), file_count |-> 0, folder_count |-> 0,
                  total_size |-> 0]
    IN  IF DepthReached(current_depth, cfg.max_depth) THEN start
        ELSE IF iterdir_raises(f, id) THEN start
        ELSE ScanItems(f, SortItems(f, iterdir(f, id, ord)), current_depth, cfg, ord, start)

\* The paths handed to scan_directory: "/", the hidden directory /.h, the
\* directory /d, the file /a.p and a path that does not exist
ScanPaths == {<<>>, <<NameHiddenDir>>, <<NameD>>, <<NameAP>>, <<NameMissing>>}

NoCall == [path |-> None, outcome |-> "none", ret |-> None]

\* scan_directory's default arguments
DefaultConfig ==
    [max_depth |-> None, show_hidden |-> FALSE, include_files |-> TRUE,
     extensions |-> None, size_filter |-> None]

\* render_text_tree's default arguments
DefaultRenderOptions ==
    [style |-> "unicode", show_size |-> TRUE, show_count |-> TRUE, max_width |-> 100]

\* no render or export call made yet: text is what render_text_tree returned,
\* html and json the files written, page the document once a browser has
\* loaded the html file
NoOutputs == [text |-> None, html |-> None, json |-> None, page |-> None]

\* the GUI's scan threads (_run_scan), none started
Threads == {"t1", "t2"}
NoCounts == [file_count |-> 0, folder_count |-> 0, total_size |-> 0]
IdleThread ==
    [pc |-> "idle", path |-> None, todo |-> <<>>, node |-> None, seen |-> NoCounts,
     text |-> None]
NoThreads == [t \in Threads |-> IdleThread]

\* the widgets as create_widgets leaves them: the text of the status bar
\* (with the counters a "Scan completed" status shows), the content of the
\* results area and the state of the buttons
NewGui ==
    [status |-> "Ready to scan", status_counts |-> NoCounts, results |-> <<>>,
     scan_button |-> "normal", stop_button |-> "disabled", save_buttons |-> "disabled"]

\* A visualizer as __init__ leaves it, over some directory structure; the scans
\* of one behaviour are made with one set of filter arguments, options
Init ==
    /\ fs \in FileSystems
    /\ options \in Configs
    /\ tree_data = None
    /\ root_path = None
    /\ file_count = 0
    /\ folder_count = 0
    /\ total_size = 0
    /\ last_call = NoCall
    /\ render_options = DefaultRenderOptions
    /\ outputs = NoOutputs
    /\ threads = NoThreads
    /\ is_scanning = FALSE
    /\ calls = 0
    /\ size_arg = <<0>>
    /\ size_text = None
    /\ stack = <<>>
    /\ gui = NewGui

\* (mutation: the existence check is missing, the scan goes on and the
\* listing error is swallowed, so that an empty tree is returned)
ScanNotFound_NoCheck(path) ==
    /\ Lookup(fs, path) = 0
    /\ root_path' = Some(path)
    /\ file_count' = 0
    /\ folder_count' = 0
    /\ total_size' = 0
    /\ tree_data' = Some([name |-> path[Len(path)], path |-> path, type |-> "directory",
                          size |-> 0, children |-> <<>>, file_count |-> 0,
                          folder_count |-> 0])
    /\ last_call' = [path |-> Some(path), outcome |-> "returned", ret |-> tree_data']
    /\ outputs' = NoOutputs
    /\ UNCHANGED <<fs, options, render_options, threads, is_scanning, calls, size_arg, size_text, stack, gui>>

\* (mutation: the counters are not reset, the new scan counts on)
ResetCounter_Keep(old) == old

\* self.file_count = 0, self.folder_count = 0, self.total_size = 0
ResetCounter(old) == 0

\* scan_directory(path, ...) when the resolved path does not exist: the
\* counters have been reset and FileNotFoundError is raised
NotFound(path) ==
    /\ Lookup(fs, path) = 0
    /\ root_path' = Some(path)
    /\ file_count' = ResetCounter(file_count)
    /\ folder_count' = ResetCounter(folder_count)
    /\ total_size' = ResetCounter(total_size)
    /\ last_call' = [path |-> Some(path), outcome |-> "FileNotFoundError", ret |-> None]
    /\ outputs' = NoOutputs
    /\ UNCHANGED <<fs, tree_data>>

ScanNotFound(path) ==
    /\ NotFound(path)
    /\ UNCHANGED <<options, render_options, threads, is_scanning, calls, size_arg, size_text, stack, gui>>

\* scan_directory(path, ...) when the path exists and is no directory:
\* ValueError is raised
NotADirectory(path) ==
    /\ Lookup(fs, path) /= 0
    /\ ~is_dir(fs, Lookup(fs, path))
    /\ root_path' = Some(path)
    /\ file_count' = ResetCounter(file_count)
    /\ folder_count' = ResetCounter(folder_count)
    /\ total_size' = ResetCounter(total_size)
    /\ last_call' = [path |-> Some(path), outcome |-> "ValueError", ret |-> None]
    /\ outputs' = NoOutputs
    /\ UNCHANGED <<fs, tree_data>>

ScanNotADirectory(path) ==
    /\ NotADirectory(path)
    /\ UNCHANGED <<options, render_options, threads, is_scanning, calls, size_arg, size_text, stack, gui>>

\* scan_directory(path, **cfg) on a directory, the operating system listing
\* directories in the order ord: the counters are reset, then the scan adds
\* to them what it finds
Scanned(path, ord, cfg) ==
    /\ Lookup(fs, path) /= 0
    /\ is_dir(fs, Lookup(fs, path))
    /\ \E r \in {scan_recursive(fs, Lookup(fs, path), 0, cfg, ord)} :
           /\ root_path' = Some(path)
           /\ tree_data' = Some(r.node)
           /\ file_count' = ResetCounter(file_count) + r.file_count
           /\ folder_count' = ResetCounter(folder_count) + r.folder_count
           /\ total_size' = ResetCounter(total_size) + r.total_size
           /\ last_call' = [path |-> Some(path), outcome |-> "returned", ret |-> Some(r.node)]
    /\ outputs' = NoOutputs
    /\ UNCHANGED fs

\* the scans of a run whose calls all have the arguments options
ScanDirectory(path, ord) ==
    /\ Scanned(path, ord, options)
    /\ UNCHANGED <<options, render_options, threads, is_scanning, calls, size_arg, size_text, stack, gui>>

Next ==
    \/ \E path \in ScanPaths : ScanNotFound(path)
    \/ \E path \in ScanPaths : ScanNotADirectory(path)
    \/ \E path \in ScanPaths, ord \in IterOrders : ScanDirectory(path, ord)

Spec == Init /\ [][Next]_vars

\* ------------------------------------------------------------ format_size
\* Python integers are unbounded and sizes up to 1024^5 matter here, so a
\* byte count is held as its base-1024 digits, most significant first and
\* without leading zeros; zero is <<0>>.
RECURSIVE Digits1024(_)
Digits1024(n) == IF n < 1024 THEN <<n>> ELSE Append(Digits1024(n \div 1024), n % 1024)

\* the integer a digit sequence stands for (where it fits)
RECURSIVE FromDigits1024(_)
FromDigits1024(ds) ==
    IF ds = <<>> THEN 0
    ELSE 1024 * FromDigits1024(SubSeq(ds, 1, Len(ds) - 1)) + ds[Len(ds)]

size_names == <<<<"B">>, <<"K", "B">>, <<"M", "B">>, <<"G", "B">>, <<"T", "B">>>>

\* size_bytes >= 1024, for the whole part of the value
StepsUp(whole) == Len(whole) >= 2

\* while size_bytes >= 1024 and i < len(size_names) - 1: size_bytes /= 1024.0;
\* i += 1.  The value is whole + frac, frac the base-1024 digits after the
\* point: a division by 1024 moves the point one digit to the left, exactly
\* (a division of a float by a power of two loses nothing below 2^53).
RECURSIVE DivideLoop(_, _, _)
DivideLoop(whole, frac, i) ==
    IF StepsUp(whole) /\ i < Len(size_names) - 1
    THEN DivideLoop(SubSeq(whole, 1, Len(whole) - 1), <<whole[Len(whole)]>> \o frac, i + 1)
    ELSE [whole |-> whole, frac |-> frac, i |-> i]

\* ten times a fraction given by its base-1024 digits: the whole part (carry)
\* and the digits of the fraction that remains
RECURSIVE TimesTen(_)
TimesTen(frac) ==
    IF frac = <<>> THEN [carry |-> 0, digits |-> <<>>]
    ELSE LET r == TimesTen(Tail(frac))
             x == 10 * Head(frac) + r.carry
         IN  [carry |-> x \div 1024, digits |-> <<x % 1024>> \o r.digits]

\* the format ".1f" rounds to the nearest tenth, a tie to the even digit:
\* rest is what remains below the tenths digit
RoundsUp(tenths, rest) ==
    IF rest = <<>> THEN FALSE
    ELSE IF rest[1] > 512 THEN TRUE
    ELSE IF rest[1] < 512 THEN FALSE
    ELSE IF \E k \in 2..Len(rest) : rest[k] /= 0 THEN TRUE
    ELSE tenths % 2 = 1

DigitChars == <<"0", "1", "2", "3", "4", "5", "6", "7", "8", "9">>

\* str(n) of a natural number
RECURSIVE Decimal(_)
Decimal(n) ==
    IF n < 10 THEN <<DigitChars[n + 1]>>
    ELSE Append(Decimal(n \div 10), DigitChars[(n % 10) + 1])

\* f"{size_bytes:.1f}"
FixedOne(whole, frac) ==
    LET t == TimesTen(frac)
        up == RoundsUp(t.carry, t.digits)
        tenths == IF up THEN (t.carry + 1) % 10 ELSE t.carry
        units == FromDigits1024(whole) + (IF up /\ t.carry = 9 THEN 1 ELSE 0)
    IN  Decimal(units) \o <<".", DigitChars[tenths + 1]>>

\* format_size(size_bytes), size_bytes given by its base-1024 digits
format_size(size_bytes) ==
    IF size_bytes = <<0>> THEN <<"0", " ", "B">>
    ELSE LET r == DivideLoop(size_bytes, <<>>, 0)
         IN  FixedOne(r.whole, r.frac) \o <<" ">> \o size_names[r.i + 1]

\* ------------------------------------------------------- render_text_tree
\* Text is a sequence of characters.  The characters outside ASCII are
\* written as one element each: "<folder>" and "<page>" are icons, "<tee>",
\* "<corner>", "<bar>" and "<dash>" the box-drawing characters, and
\* "<backtick>" is the grave accent of the ascii style.
IconFolder == "<folder>"
IconPage == "<page>"
IconSnake == "<snake>"
IconBook == "<book>"

\* self.styles
styles ==
    [unicode |-> [branch |-> <<"<tee>", "<dash>", "<dash>", " ">>,
                  last |-> <<"<corner>", "<dash>", "<dash>", " ">>,
                  vertical |-> <<"<bar>", " ", " ", " ">>,
                  space |-> <<" ", " ", " ", " ">>],
     ascii |-> [branch |-> <<"|", "-", "-", " ">>,
                last |-> <<"<backtick>", "-", "-", " ">>,
                vertical |-> <<"|", " ", " ", " ">>,
                space |-> <<" ", " ", " ", " ">>],
     simple |-> [branch |-> <<" ", " ">>,
                 last |-> <<" ", " ">>,
                 vertical |-> <<" ", " ">>,
                 space |-> <<" ", " ">>]]

\* self.styles.get(style, self.styles['unicode'])
StyleChars(style) == IF style \in DOMAIN styles THEN styles[style] ELSE styles.unicode

\* str(path) of a resolved path
RECURSIVE PathStr(_)
PathStr(path) ==
    IF path = <<>> THEN <<"/">>
    ELSE IF Len(path) = 1 THEN <<"/">> \o path[1]
    ELSE PathStr(SubSeq(path, 1, Len(path) - 1)) \o <<"/">> \o path[Len(path)]

\* _get_file_icon: of the icon map the entries '.py' and '.md' are kept, no
\* other key of the map is an extension of the structures scanned here
get_file_icon(extension) ==
    IF Lower(extension) = <<".", "p", "y">> THEN IconSnake
    ELSE IF Lower(extension) = <<".", "m", "d">> THEN IconBook
    ELSE IconPage

\* text[:k] for an integer k (a negative k counts from the end)
SlicePrefix(text, k) ==
    IF k >= 0 THEN SubSeq(text, 1, IF k < Len(text) THEN k ELSE Len(text))
    ELSE SubSeq(text, 1, Len(text) + k)

Ellipsis == <<".", ".", ".">>

\* (mutation: the line is cut at max_width and the ellipsis added after it)
Truncate_CutAtWidth(line, max_width) ==
    IF Len(line) > max_width THEN SlicePrefix(line, max_width) \o Ellipsis ELSE line

\* if len(line) > max_width: line = line[:max_width-3] + "..."
Truncate(line, max_width) ==
    IF Len(line) > max_width THEN SlicePrefix(line, max_width - 3) \o Ellipsis ELSE line

\* ', '.join(parts) and '\n'.join(parts)
RECURSIVE Join(_, _)
Join(parts, sep) ==
    IF parts = <<>> THEN <<>>
    ELSE IF Len(parts) = 1 THEN parts[1]
    ELSE parts[1] \o sep \o Join(Tail(parts), sep)

Chars_items == <<" ", "i", "t", "e", "m", "s">>
Chars_folders == <<" ", "f", "o", "l", "d", "e", "r", "s">>
Chars_files == <<" ", "f", "i", "l", "e", "s">>

\* the name of a node with its size and count information
NodeLabel(node, show_size, show_count) ==
    IF node.type = "directory"
    THEN LET total_items == node.file_count + node.folder_count
             count_part == IF show_count /\ total_items > 0
                           THEN <<Decimal(total_items) \o Chars_items>> ELSE <<>>
             size_part == IF show_size /\ node.size > 0
                          THEN <<format_size(Digits1024(node.size))>> ELSE <<>>
             info_parts == count_part \o size_part
         IN  IF info_parts /= <<>>
             THEN node.name \o <<" ", "(">> \o Join(info_parts, <<",", " ">>) \o <<")">>
             ELSE node.name
    ELSE IF show_size
         THEN node.name \o <<" ", "(">> \o format_size(Digits1024(node.size)) \o <<")">>
         ELSE node.name

NodeIcon(node) ==
    IF node.type = "directory" THEN IconFolder ELSE get_file_icon(node.extension)

\* (mutation: the final child gets the branch glyph as well)
ComposeLine_AlwaysBranch(node, prefix, is_last, style_chars, show_size, show_count) ==
    prefix \o style_chars.branch
           \o <<NodeIcon(node), " ">> \o NodeLabel(node, show_size, show_count)

\* line = f"{prefix}{connector}{icon} {name}"
ComposeLine(node, prefix, is_last, style_chars, show_size, show_count) ==
    prefix \o (IF is_last THEN style_chars.last ELSE style_chars.branch)
           \o <<NodeIcon(node), " ">> \o NodeLabel(node, show_size, show_count)

\* _render_node_text: the lines it appends to lines, for the node and then
\* for the children from the i-th on
RECURSIVE render_node_text(_, _, _, _, _, _, _)
RECURSIVE RenderChildren(_, _, _, _, _, _, _)
\* (mutation: the children of a directory are not rendered)
render_node_text_NoChildren(node, prefix, is_last, style_chars, show_size, show_count, max_width) ==
    <<Truncate(ComposeLine(node, prefix, is_last, style_chars, show_size, show_count),
               max_width)>>

render_node_text(node, prefix, is_last, style_chars, show_size, show_count, max_width) ==
    LET line == Truncate(ComposeLine(node, prefix, is_last, style_chars, show_size, show_count),
                         max_width)
        new_prefix == prefix \o (IF is_last THEN style_chars.space ELSE style_chars.vertical)
    IN  IF node.type = "directory" /\ node.children /= <<>>
        THEN <<line>> \o RenderChildren(node.children, 1, new_prefix, style_chars,
                                        show_size, show_count, max_width)
        ELSE <<line>>

RenderChildren(children, i, new_prefix, style_chars, show_size, show_count, max_width) ==
    IF i > Len(children) THEN <<>>
    ELSE render_node_text(children[i], new_prefix, i = Len(children), style_chars,
                          show_size, show_count, max_width)
         \o RenderChildren(children, i + 1, new_prefix, style_chars,
                           show_size, show_count, max_width)

\* the header line of render_text_tree
Header(tree, root, folders, files, size, show_size, show_count) ==
    LET root_name == IF tree.name /= <<>> THEN tree.name ELSE PathStr(root)
        counts == Decimal(folders) \o Chars_folders \o <<",", " ">>
                    \o Decimal(files) \o Chars_files
    IN  <<IconFolder, " ">> \o root_name
          \o (IF show_count
              THEN <<" ", "(">> \o counts
                     \o (IF show_size THEN <<",", " ">> \o format_size(Digits1024(size))
                         ELSE <<>>)
                     \o <<")">>
              ELSE IF show_size
              THEN <<" ", "(">> \o format_size(Digits1024(size)) \o <<")">>
              ELSE <<>>)

NewLine == <<"\n">>

\* render_text_tree on a visualizer that holds a tree: what it returns
render_text_tree(tree, root, folders, files, size, opt) ==
    Join(<<Header(tree, root, folders, files, size, opt.show_size, opt.show_count), <<>>>>
           \o render_node_text(tree, <<>>, TRUE, StyleChars(opt.style),
                               opt.show_size, opt.show_count, opt.max_width),
         NewLine)

\* ------------------------------------------------------------- export_html
\* The document is held as what a browser builds from it: the statistics
\* and the elements inside <div class="tree-container"> in document order.
\* An element is a node line (cls "tree-node") or a block of children (cls
\* "tree-children"); parent is the index of the enclosing element, 0 for the
\* container itself; toggle is the text of the line's "tree-toggle" span,
\* the folder icon for a directory and a blank for a file.
NodeElement(parent, directory, name, info) ==
    [cls |-> "tree-node", directory |-> directory, collapsed |-> FALSE,
     parent |-> parent, toggle |-> IF directory THEN IconFolder ELSE " ",
     name |-> name, info |-> info]

ChildrenElement(parent, collapsed) ==
    [cls |-> "tree-children", directory |-> FALSE, collapsed |-> collapsed,
     parent |-> parent, toggle |-> "", name |-> <<>>, info |-> <<>>]

\* size_info of a directory: f"({len(children)} items, {format_size(size)})"
DirectoryInfo(child) ==
    <<"(">> \o Decimal(Len(child.children)) \o Chars_items \o <<",", " ">>
            \o format_size(Digits1024(child.size)) \o <<")">>

FileInfo(child) == <<"(">> \o format_size(Digits1024(child.size)) \o <<")">>

\* <div class="tree-children collapsed">
BlockOf(parent) == ChildrenElement(parent, TRUE)

\* _render_html_children: the elements for the children from the i-th on,
\* inside element parent, the first of them getting the index next
RECURSIVE render_html_children(_, _, _, _)
render_html_children(children, i, parent, next) ==
    IF i > Len(children) THEN <<>>
    ELSE LET child == children[i]
             below == IF child.type = "directory" /\ child.children /= <<>>
                      THEN <<BlockOf(parent)>>
                             \o render_html_children(child.children, 1, next + 1, next + 2)
                      ELSE <<>>
             element == IF child.type = "directory"
                        THEN NodeElement(parent, TRUE, child.name, DirectoryInfo(child))
                        ELSE NodeElement(parent, FALSE, child.name, FileInfo(child))
         IN  <<element>> \o below
               \o render_html_children(children, i + 1, parent, next + 1 + Len(below))

Chars_Root == <<"R", "o", "o", "t">>

\* _generate_html: the root's line, its block of children (not collapsed)
\* and the statistics of the page head
generate_html(tree, folders, files, size) ==
    [stats |-> [folders |-> Decimal(folders), files |-> Decimal(files),
                size |-> format_size(Digits1024(size))],
     elements |->
        <<NodeElement(0, TRUE, IF tree.name /= <<>> THEN tree.name ELSE Chars_Root,
                      FileInfo(tree)),
          ChildrenElement(0, FALSE)>>
        \o render_html_children(tree.children, 1, 2, 3)]

\* the script of the page ---------------------------------------------------
\* element.nextElementSibling: the next element with the same parent (0: none)
nextElementSibling(elements, i) ==
    LET later == {j \in (i + 1)..Len(elements) : elements[j].parent = elements[i].parent}
    IN  IF later = {} THEN 0 ELSE CHOOSE j \in later : \A k \in later : j <= k

\* toggleNode(element): the block after the node line gets or loses
\* "collapsed" and the text of the line's toggle is set
toggleNode(elements, i) ==
    LET children == nextElementSibling(elements, i)
    IN  IF children /= 0 /\ elements[children].cls = "tree-children"
        THEN IF elements[children].collapsed
             THEN [elements EXCEPT ![children].collapsed = FALSE,
                                   ![i].toggle = IF elements[i].directory THEN IconFolder
                                                 ELSE IconPage]
             ELSE [elements EXCEPT ![children].collapsed = TRUE,
                                   ![i].toggle = IconFolder]
        ELSE elements

\* document.querySelectorAll('.tree-children > .tree-node.directory'): the
\* matching elements in document order
querySelectorAll(elements) ==
    LET Matches(i) ==
            /\ elements[i].cls = "tree-node"
            /\ elements[i].directory
            /\ elements[i].parent /= 0
            /\ elements[elements[i].parent].cls = "tree-children"
    IN  SelectSeq([i \in 1..Len(elements) |-> i], Matches)

\* topLevelNodes.forEach((node, index) => { if (index < 3) toggleNode(node) }),
\* from the k-th node on (index counts from 0)
RECURSIVE forEachToggle(_, _, _)
forEachToggle(elements, nodes, k) ==
    IF k > Len(nodes) THEN elements
    ELSE forEachToggle(IF k - 1 < 3 THEN toggleNode(elements, nodes[k]) ELSE elements,
                       nodes, k + 1)

\* the DOMContentLoaded handler
DOMContentLoaded(elements) == forEachToggle(elements, querySelectorAll(elements), 1)

\* ------------------------------------------------------------- export_json
\* A JSON document is held as the value json.dump writes: an object with its
\* members in the dict's order, an array, a string or a number (its text).
JObject(members) == [json |-> "object", members |-> members]
JArray(items) == [json |-> "array", items |-> items]
JString(chars) == [json |-> "string", chars |-> chars]
JNumber(n) == [json |-> "number", chars |-> Decimal(n)]
Member(key, value) == [key |-> key, value |-> value]

\* json.dump of a node of the tree ('modified' is the text of a timestamp)
RECURSIVE JsonNode(_)
JsonNode(node) ==
    IF node.type = "directory"
    THEN JObject(<<Member("name", JString(node.name)),
                   Member("path", JString(PathStr(node.path))),
                   Member("type", JString(<<node.type>>)),
                   Member("size", JNumber(node.size)),
                   Member("children",
                          JArray([i \in DOMAIN node.children |-> JsonNode(node.children[i])])),
                   Member("file_count", JNumber(node.file_count)),
                   Member("folder_count", JNumber(node.folder_count))>>)
    ELSE JObject(<<Member("name", JString(node.name)),
                   Member("path", JString(PathStr(node.path))),
                   Member("type", JString(<<node.type>>)),
                   Member("size", JNumber(node.size)),
                   Member("extension", JString(node.extension)),
                   Member("modified", JString(Decimal(node.modified)))>>)

\* the readings of datetime.now()
ScanTimes == {<<"t", "1">>, <<"t", "2">>}

\* export_json: json.dump(export_data)
export_json(tree, root, folders, files, size, scan_time) ==
    JObject(<<Member("scan_info",
                     JObject(<<Member("root_path", JString(PathStr(root))),
                               Member("scan_time", JString(scan_time)),
                               Member("total_files", JNumber(files)),
                               Member("total_folders", JNumber(folders)),
                               Member("total_size", JNumber(size))>>)),
              Member("tree_data", JsonNode(tree))>>)

\* ------------------------------------------------- the render/export calls
\* if not self.tree_data
NoData(tree) == IsNone(tree)

Returns(value) == [outcome |-> "returned", value |-> Some(value)]

\* (mutation: the export call returns without writing anything)
Raises_ReturnsNothing(error) == [outcome |-> "returned", value |-> None]

\* raise ValueError("No tree data available")
Raises(error) == [outcome |-> error, value |-> None]

\* "No tree data available. Please scan a directory first."
NoTreeMessage ==
    Join(<<<<"No">>, <<"tree">>, <<"data">>, <<"available.">>, <<"Please">>, <<"scan">>,
           <<"a">>, <<"directory">>, <<"first.">>>>, <<" ">>)

\* render_text_tree(**render_options)
RenderText ==
    /\ outputs' =
          [outputs EXCEPT !.text =
              Some(IF NoData(tree_data) THEN Returns(NoTreeMessage)
                   ELSE Returns(render_text_tree(Val(tree_data), Val(root_path), folder_count,
                                                 file_count, total_size, render_options)))]
    /\ UNCHANGED <<fs, options, tree_data, root_path, file_count, folder_count, total_size,
                   last_call, render_options, threads, is_scanning, calls, size_arg, size_text, stack, gui>>

\* export_html(filename)
ExportHtml ==
    /\ outputs' =
          [outputs EXCEPT !.html =
              Some(IF NoData(tree_data) THEN Raises("ValueError")
                   ELSE Returns(generate_html(Val(tree_data), folder_count, file_count,
                                              total_size)))]
    /\ UNCHANGED <<fs, options, tree_data, root_path, file_count, folder_count, total_size,
                   last_call, render_options, threads, is_scanning, calls, size_arg, size_text, stack, gui>>

\* a browser opens the file export_html wrote and its DOMContentLoaded
\* handler runs
LoadDocument ==
    /\ ~IsNone(outputs.html)
    /\ ~IsNone(Val(outputs.html).value)
    /\ outputs' =
          [outputs EXCEPT !.page =
              Some(DOMContentLoaded(Val(Val(outputs.html).value).elements))]
    /\ UNCHANGED <<fs, options, tree_data, root_path, file_count, folder_count, total_size,
                   last_call, render_options, threads, is_scanning, calls, size_arg, size_text, stack, gui>>

\* (mutation: export_json clears the size counter after writing)
ExportJson_ClearsSize(scan_time) ==
    /\ outputs' =
          [outputs EXCEPT !.json =
              Some(IF NoData(tree_data) THEN Raises("ValueError")
                   ELSE Returns(export_json(Val(tree_data), Val(root_path), folder_count,
                                            file_count, total_size, scan_time)))]
    /\ total_size' = 0
    /\ UNCHANGED <<fs, options, tree_data, root_path, file_count, folder_count,
                   last_call, render_options, threads, is_scanning, calls, size_arg, size_text, stack, gui>>

\* a click on the i-th element of the loaded page, a node line with an
\* onclick handler (the lines of the root and of the directories have one)
Click(i) ==
    /\ ~IsNone(outputs.page)
    /\ i \in DOMAIN Val(outputs.page)
    /\ Val(outputs.page)[i].cls = "tree-node"
    /\ Val(outputs.page)[i].directory
    /\ outputs' = [outputs EXCEPT !.page = Some(toggleNode(Val(outputs.page), i))]
    /\ UNCHANGED <<fs, options, tree_data, root_path, file_count, folder_count, total_size,
                   last_call, render_options, threads, is_scanning, calls, size_arg, size_text, stack, gui>>

\* export_json(filename), datetime.now() reading scan_time
ExportJson(scan_time) ==
    /\ outputs' =
          [outputs EXCEPT !.json =
              Some(IF NoData(tree_data) THEN Raises("ValueError")
                   ELSE Returns(export_json(Val(tree_data), Val(root_path), folder_count,
                                            file_count, total_size, scan_time)))]
    /\ UNCHANGED <<fs, options, tree_data, root_path, file_count, folder_count, total_size,
                   last_call, render_options, threads, is_scanning, calls, size_arg, size_text, stack, gui>>

\* The structures, filters and arguments of the runs that render: "/" with
\* its hidden entries shown or not, the directory d/e readable or not, the
\* entry d/s a regular file or neither file nor directory.
RenderFileSystems ==
    {BaseFileSystem(s1, MaxFileSize, "file") : s1 \in {0, MaxFileSize}}
    \cup {Deny(BaseFileSystem(MaxFileSize, 1, "file"), 7)}
    \cup {BaseFileSystem(MaxFileSize, MaxFileSize, "other")}

RenderConfigs ==
    {[max_depth |-> None, show_hidden |-> h, include_files |-> TRUE,
      extensions |-> None, size_filter |-> None] : h \in BOOLEAN}

RenderStyles == {"unicode", "ascii", "simple", "fancy"}

RenderOptionSets ==
    {[style |-> s, show_size |-> z, show_count |-> c, max_width |-> 100] :
        s \in RenderStyles, z \in BOOLEAN, c \in BOOLEAN}
    \cup {[style |-> s, show_size |-> TRUE, show_count |-> TRUE, max_width |-> w] :
            s \in {"unicode", "simple"}, w \in (1..MaxLineWidth) \cup {12}}

RenderScanPaths == {<<>>, <<NameD>>, <<NameMissing>>}

InitRender ==
    /\ fs \in RenderFileSystems
    /\ options \in RenderConfigs
    /\ render_options \in RenderOptionSets
    /\ tree_data = None
    /\ root_path = None
    /\ file_count = 0
    /\ folder_count = 0
    /\ total_size = 0
    /\ last_call = NoCall
    /\ outputs = NoOutputs
    /\ threads = NoThreads
    /\ is_scanning = FALSE
    /\ calls = 0
    /\ size_arg = <<0>>
    /\ size_text = None
    /\ stack = <<>>
    /\ gui = NewGui

NextRender ==
    \/ \E path \in RenderScanPaths : ScanNotFound(path)
    \/ \E path \in RenderScanPaths, ord \in IterOrders : ScanDirectory(path, ord)
    \/ RenderText
    \/ ExportHtml
    \/ LoadDocument
    \/ \E scan_time \in ScanTimes : ExportJson(scan_time)

SpecRender == InitRender /\ [][NextRender]_vars

\* ---------------------------------------------------- the GUI's scan threads
\* The updates of self.file_count, self.folder_count and self.total_size a
\* scan makes, in program order: they follow the children of each node in
\* the order the scan appended them, a directory's own "+= 1" coming after
\* the updates of the scan of that directory.
RECURSIVE CounterUpdates(_)
RECURSIVE CounterUpdatesFrom(_, _)
CounterUpdates(node) == CounterUpdatesFrom(node.children, 1)

CounterUpdatesFrom(children, i) ==
    IF i > Len(children) THEN <<>>
    ELSE (IF children[i].type = "directory"
          THEN CounterUpdates(children[i]) \o <<[counter |-> "folder_count", add |-> 1]>>
          ELSE <<[counter |-> "file_count", add |-> 1],
                 [counter |-> "total_size", add |-> children[i].size]>>)
         \o CounterUpdatesFrom(children, i + 1)

Counts == [file_count |-> file_count, folder_count |-> folder_count, total_size |-> total_size]

\* start_scan: refused while is_scanning; else a thread is started on the
\* directory chosen (which exists)
StartScan(t, path) ==
    /\ Lookup(fs, path) /= 0
    /\ gui.scan_button = "normal"
    /\ ~is_scanning
    /\ threads[t].pc = "idle"
    /\ gui' = [gui EXCEPT !.results = <<>>, !.scan_button = "disabled",
                          !.stop_button = "normal", !.save_buttons = "disabled",
                          !.status = "Scanning directory...", !.status_counts = NoCounts]
    /\ is_scanning' = TRUE
    /\ threads' = [threads EXCEPT ![t] = [@ EXCEPT !.pc = "started", !.path = Some(path)]]
    /\ UNCHANGED <<fs, options, tree_data, root_path, file_count, folder_count, total_size,
                   last_call, render_options, outputs, calls, size_arg, size_text, stack>>

\* stop_scan (the Stop button is enabled): only the flag, the buttons and
\* the status bar change, the thread runs on
StopScan ==
    /\ gui.stop_button = "normal"
    /\ is_scanning' = FALSE
    /\ gui' = [gui EXCEPT !.scan_button = "normal", !.stop_button = "disabled",
                          !.status = "Scan stopped by user", !.status_counts = NoCounts]
    /\ UNCHANGED <<fs, options, tree_data, root_path, file_count, folder_count, total_size,
                   last_call, render_options, outputs, threads, calls, size_arg, size_text, stack>>

\* _run_scan enters scan_directory: root_path is set, the counters are reset
\* and the path is checked; the thread's own tree is built from the listing
\* while its updates of the shared counters are still to be made
ThreadEnter(t, ord) ==
    /\ threads[t].pc = "started"
    /\ root_path' = threads[t].path
    /\ file_count' = 0
    /\ folder_count' = 0
    /\ total_size' = 0
    /\ \E id \in {Lookup(fs, Val(threads[t].path))} :
          IF is_dir(fs, id)
          THEN \E r \in {scan_recursive(fs, id, 0, options, ord)} :
                  threads' = [threads EXCEPT ![t] =
                                 [@ EXCEPT !.pc = "scanning", !.node = Some(r.node),
                                           !.todo = CounterUpdates(r.node)]]
          ELSE threads' = [threads EXCEPT ![t] = [@ EXCEPT !.pc = "raised"]]
    /\ UNCHANGED <<fs, options, tree_data, last_call, render_options, outputs, is_scanning, calls, size_arg, size_text, stack, gui>>

\* the thread's next "self.<counter> += ..."
ThreadCount(t) ==
    /\ threads[t].pc = "scanning"
    /\ threads[t].todo /= <<>>
    /\ \E u \in {Head(threads[t].todo)} :
          /\ file_count' = file_count + (IF u.counter = "file_count" THEN u.add ELSE 0)
          /\ folder_count' = folder_count + (IF u.counter = "folder_count" THEN u.add ELSE 0)
          /\ total_size' = total_size + (IF u.counter = "total_size" THEN u.add ELSE 0)
    /\ threads' = [threads EXCEPT ![t] = [@ EXCEPT !.todo = Tail(@)]]
    /\ UNCHANGED <<fs, options, tree_data, root_path, last_call, render_options, outputs,
                   is_scanning, calls, size_arg, size_text, stack, gui>>

\* scan_directory stores the tree and returns; seen is what the thread then
\* finds in the counters, text what its render_text_tree call gives
ThreadReturn(t) ==
    /\ threads[t].pc = "scanning"
    /\ threads[t].todo = <<>>
    /\ tree_data' = threads[t].node
    /\ threads' = [threads EXCEPT ![t] =
                      [@ EXCEPT !.pc = "returned", !.seen = Counts,
                                !.text = Some(render_text_tree(Val(threads[t].node), Val(root_path),
                                                               folder_count, file_count,
                                                               total_size, render_options))]]
    /\ UNCHANGED <<fs, options, root_path, file_count, folder_count, total_size, last_call,
                   render_options, outputs, is_scanning, calls, size_arg, size_text, stack, gui>>

\* _scan_completed, run by the main loop after the thread's scan returned
ScanCompleted(t) ==
    /\ threads[t].pc = "returned"
    /\ is_scanning' = FALSE
    /\ gui' = [scan_button |-> "normal", stop_button |-> "disabled",
               save_buttons |-> "normal", results |-> Val(threads[t].text),
               status |-> "Scan completed", status_counts |-> Counts]
    /\ threads' = [threads EXCEPT ![t] = [@ EXCEPT !.pc = "done"]]
    /\ UNCHANGED <<fs, options, tree_data, root_path, file_count, folder_count, total_size,
                   last_call, render_options, outputs, calls, size_arg, size_text, stack>>

\* _scan_error, run by the main loop after the thread's scan raised
ScanError(t) ==
    /\ threads[t].pc = "raised"
    /\ is_scanning' = FALSE
    /\ gui' = [gui EXCEPT !.scan_button = "normal", !.stop_button = "disabled",
                          !.status = "Scan failed", !.status_counts = NoCounts]
    /\ threads' = [threads EXCEPT ![t] = [@ EXCEPT !.pc = "failed"]]
    /\ UNCHANGED <<fs, options, tree_data, root_path, file_count, folder_count, total_size,
                   last_call, render_options, outputs, calls, size_arg, size_text, stack>>

\* the structures, filters and directories of the runs with threads
ConcFileSystems == {BaseFileSystem(MaxFileSize, 1, "file")}

ConcConfigs ==
    {[max_depth |-> None, show_hidden |-> h, include_files |-> TRUE,
      extensions |-> None, size_filter |-> None] : h \in BOOLEAN}

ConcScanPaths == {<<>>, <<NameD>>, <<NameAP>>}

InitConc ==
    /\ fs \in ConcFileSystems
    /\ options \in ConcConfigs
    /\ render_options = DefaultRenderOptions
    /\ tree_data = None
    /\ root_path = None
    /\ file_count = 0
    /\ folder_count = 0
    /\ total_size = 0
    /\ last_call = NoCall
    /\ outputs = NoOutputs
    /\ threads = NoThreads
    /\ is_scanning = FALSE
    /\ calls = 0
    /\ size_arg = <<0>>
    /\ size_text = None
    /\ stack = <<>>
    /\ gui = NewGui

NextConc ==
    \/ \E t \in Threads, path \in ConcScanPaths : StartScan(t, path)
    \/ StopScan
    \/ \E t \in Threads, ord \in IterOrders : ThreadEnter(t, ord)
    \/ \E t \in Threads : ThreadCount(t)
    \/ \E t \in Threads : ThreadReturn(t)
    \/ \E t \in Threads : ScanCompleted(t)
    \/ \E t \in Threads : ScanError(t)

SpecConc == InitConc /\ [][NextConc]_vars

\* --------------------------------------- calls with arguments that vary
\* scan_directory(path, **cfg): a call with its own arguments, whatever the
\* calls before it were and however they ended
ScanWith(path, ord, cfg) ==
    /\ calls < MaxCalls
    /\ calls' = calls + 1
    /\ options' = cfg
    /\ \/ NotFound(path)
       \/ NotADirectory(path)
       \/ Scanned(path, ord, cfg)
    /\ UNCHANGED <<render_options, threads, is_scanning, size_arg, size_text, stack, gui>>

SeqFileSystems == {BaseFileSystem(MaxFileSize, 1, "file"), Deny(BaseFileSystem(1, 1, "file"), 7)}

SeqConfigs ==
    {[max_depth |-> d, show_hidden |-> h, include_files |-> TRUE,
      extensions |-> x, size_filter |-> None] :
        d \in {None, Some(MaxDepthArg)}, h \in BOOLEAN, x \in {None, Some(<<NameDotP>>)}}

InitSeq ==
    /\ fs \in SeqFileSystems
    /\ options \in SeqConfigs
    /\ render_options = DefaultRenderOptions
    /\ tree_data = None
    /\ root_path = None
    /\ file_count = 0
    /\ folder_count = 0
    /\ total_size = 0
    /\ last_call = NoCall
    /\ outputs = NoOutputs
    /\ threads = NoThreads
    /\ is_scanning = FALSE
    /\ calls = 0
    /\ size_arg = <<0>>
    /\ size_text = None
    /\ stack = <<>>
    /\ gui = NewGui

NextSeq == \E path \in ScanPaths, ord \in IterOrders, cfg \in SeqConfigs : ScanWith(path, ord, cfg)

SpecSeq == InitSeq /\ [][NextSeq]_vars

\* ------------------------------------------ the recursion of a scan, call by call
\* One scan_directory call taken frame by frame: stack holds a frame for
\* every _scan_recursive call that has not returned, each with the path it
\* was called on, its current_depth, the items its loop has still to visit
\* and the node (with what the call has added to the counters) so far.
\* Symbolic links are followed as Path.is_dir() and Path.iterdir() follow
\* them; the limit of the operating system on the number of links in one
\* path is not modelled.

\* the structure "/", d, d/e with the link d/e/b that leads back to d
LoopFileSystem ==
    Append(BaseFileSystem(1, 1, "file"), SymLink(7, NameBack, 3))

\* a chain of n directories named d below "/", without any link
ChainFileSystem(n) ==
    [i \in 1..(n + 1) |-> IF i = 1 THEN Entry(0, NameRoot, "dir", 0)
                          ELSE Entry(i - 1, NameD, "dir", 0)]

WalkFileSystems ==
    {BaseFileSystem(1, 1, "file"), LoopFileSystem, ChainFileSystem(RecursionLimit)}

WalkConfigs ==
    {[max_depth |-> d, show_hidden |-> h, include_files |-> TRUE,
      extensions |-> None, size_filter |-> None] : d \in MaxDepths, h \in BOOLEAN}

\* the frame of a call of _scan_recursive up to the start of its loop: the
\* fresh node, and the sorted items unless the depth limit is reached or the
\* directory cannot be listed
NewFrame(f, id, path, current_depth, cfg, ord) ==
    [path |-> path,
     depth |-> current_depth,
     items |-> IF DepthReached(current_depth, cfg.max_depth) \/ iterdir_raises(f, id)
               THEN <<>>
               ELSE SortItems(f, iterdir(f, id, ord)),
     acc |-> [node |-> [NewDirNode(f, id) EXCEPT !.path = path],
              file_count |-> 0, folder_count |-> 0, total_size |-> 0]]

\* the innermost frame, and the stack with that frame replaced
Top == stack[Len(stack)]
WithTop(frame) == [stack EXCEPT ![Len(stack)] = frame]

\* scan_directory(path) up to the first call of _scan_recursive
WalkCall(path, ord) ==
    /\ calls = 0
    /\ stack = <<>>
    /\ gui = NewGui
    /\ Lookup(fs, path) /= 0
    /\ is_dir(fs, Lookup(fs, path))
    /\ calls' = 1
    /\ root_path' = Some(path)
    /\ file_count' = ResetCounter(file_count)
    /\ folder_count' = ResetCounter(folder_count)
    /\ total_size' = ResetCounter(total_size)
    /\ last_call' = [path |-> Some(path), outcome |-> "running", ret |-> None]
    /\ stack' = <<NewFrame(fs, Lookup(fs, path), path, 0, options, ord)>>
    /\ outputs' = NoOutputs
    /\ UNCHANGED <<fs, options, tree_data, render_options, threads, is_scanning,
                   size_arg, size_text, gui>>

\* one round of "for item in items" in the innermost call, up to the
\* recursive call if it makes one; a call beyond the recursion limit raises
\* RecursionError, which no handler of the scan catches
WalkItem(ord) ==
    /\ stack /= <<>>
    /\ Top.items /= <<>>
    /\ \E item \in {Head(Top.items)}, rest \in {[Top EXCEPT !.items = Tail(@)]} :
          IF SkipHidden(fs, item, options)
          THEN /\ stack' = WithTop(rest)
               /\ UNCHANGED <<file_count, total_size, last_call>>
          ELSE IF is_dir(fs, item)
          THEN IF Len(stack) >= RecursionLimit
               THEN /\ stack' = <<>>
                    /\ last_call' = [last_call EXCEPT !.outcome = "RecursionError"]
                    /\ UNCHANGED <<file_count, total_size>>
               ELSE /\ stack' = Append(WithTop(rest),
                                       NewFrame(fs, item, Append(Top.path, fs[item].name),
                                                Top.depth + 1, options, ord))
                    /\ UNCHANGED <<file_count, total_size, last_call>>
          ELSE IF options.include_files /\ is_file(fs, item)
                  /\ ~(stat_raises(fs, item) \/ SkipExtension(fs, item, options)
                         \/ SkipSize(fs, item, options))
          THEN /\ stack' = WithTop([rest EXCEPT !.acc =
                                       AddFile(@, [FileNode(fs, item) EXCEPT
                                                      !.path = Append(Top.path, fs[item].name)])])
               /\ file_count' = file_count + 1
               /\ total_size' = total_size + fs[item].size
               /\ UNCHANGED last_call
          ELSE /\ stack' = WithTop(rest)
               /\ UNCHANGED <<file_count, total_size, last_call>>
    /\ UNCHANGED <<fs, options, tree_data, root_path, folder_count, render_options, outputs,
                   threads, is_scanning, calls, size_arg, size_text, gui>>

\* "return node" of the innermost call: its caller appends the node and
\* counts the folder, or scan_directory stores the tree and returns it
WalkReturn ==
    /\ stack /= <<>>
    /\ Top.items = <<>>
    /\ IF Len(stack) = 1
       THEN /\ stack' = <<>>
            /\ tree_data' = Some(Top.acc.node)
            /\ last_call' = [last_call EXCEPT !.outcome = "returned",
                                              !.ret = Some(Top.acc.node)]
            /\ UNCHANGED folder_count
       ELSE /\ stack' = [SubSeq(stack, 1, Len(stack) - 1) EXCEPT
                            ![Len(stack) - 1].acc = AddDirectory(@, Top.acc)]
            /\ folder_count' = folder_count + 1
            /\ UNCHANGED <<tree_data, last_call>>
    /\ UNCHANGED <<fs, options, root_path, file_count, total_size, render_options, outputs,
                   threads, is_scanning, calls, size_arg, size_text, gui>>

InitWalk ==
    /\ fs \in WalkFileSystems
    /\ options \in WalkConfigs
    /\ render_options = DefaultRenderOptions
    /\ tree_data = None
    /\ root_path = None
    /\ file_count = 0
    /\ folder_count = 0
    /\ total_size = 0
    /\ last_call = NoCall
    /\ outputs = NoOutputs
    /\ threads = NoThreads
    /\ is_scanning = FALSE
    /\ calls = 0
    /\ size_arg = <<0>>
    /\ size_text = None
    /\ stack = <<>>
    /\ gui = NewGui

WalkStep ==
    \/ \E ord \in IterOrders : WalkItem(ord)
    \/ WalkReturn

NextWalk ==
    \/ \E path \in {<<>>, <<NameD>>}, ord \in IterOrders : WalkCall(path, ord)
    \/ WalkStep

\* the interpreter runs a call that has begun until it returns or raises
SpecWalk == InitWalk /\ [][NextWalk]_vars /\ WF_vars(WalkStep)

\* ------------------------------------------------- the page in a browser
\* A directory is scanned and exported, the file is opened once and its
\* directory lines are clicked.
InitPage ==
    /\ fs \in RenderFileSystems
    /\ options \in RenderConfigs
    /\ render_options = DefaultRenderOptions
    /\ tree_data = None
    /\ root_path = None
    /\ file_count = 0
    /\ folder_count = 0
    /\ total_size = 0
    /\ last_call = NoCall
    /\ outputs = NoOutputs
    /\ threads = NoThreads
    /\ is_scanning = FALSE
    /\ calls = 0
    /\ size_arg = <<0>>
    /\ size_text = None
    /\ stack = <<>>
    /\ gui = NewGui

NextPage ==
    \/ \E path \in {<<>>, <<NameD>>}, ord \in IterOrders : ScanDirectory(path, ord)
    \/ ExportHtml
    \/ (IsNone(outputs.page) /\ LoadDocument)
    \/ \E i \in 1..MaxElements : Click(i)

SpecPage == InitPage /\ [][NextPage]_vars

\* ----------------------------------------------- format_size on its own
\* The sizes format_size is called with: the digits 0, 1, 256, 512, 972,
\* 973 and 1023 in every position, up to MaxDigits positions (a size of six
\* digits stays below 2^53, where int to float is still exact).
SizeDigits == {0, 1, 256, 512, 972, 973, 1023}

LeadingDigits(len) == IF len >= 6 THEN {1, 7} ELSE {1, 512, 1023}

SizesOfLength(len) ==
    {ds \in [1..len -> SizeDigits] : ds[1] \in LeadingDigits(len)}

SizeArguments == {<<0>>} \cup UNION {SizesOfLength(len) : len \in 1..MaxDigits}

\* format_size(size_arg)
FormatSize ==
    /\ IsNone(size_text)
    /\ size_text' = Some(format_size(size_arg))
    /\ UNCHANGED <<fs, options, tree_data, root_path, file_count, folder_count, total_size,
                   last_call, render_options, outputs, threads, is_scanning, calls, size_arg,
                   stack, gui>>

InitFormat ==
    /\ fs = BaseFileSystem(1, 1, "file")
    /\ options = DefaultConfig
    /\ render_options = DefaultRenderOptions
    /\ tree_data = None
    /\ root_path = None
    /\ file_count = 0
    /\ folder_count = 0
    /\ total_size = 0
    /\ last_call = NoCall
    /\ outputs = NoOutputs
    /\ threads = NoThreads
    /\ is_scanning = FALSE
    /\ calls = 0
    /\ size_arg \in SizeArguments
    /\ size_text = None
    /\ stack = <<>>
    /\ gui = NewGui

NextFormat == FormatSize

SpecFormat == InitFormat /\ [][NextFormat]_vars

\* ------------------------------------------------------- reading a scan tree
IsDirNode(n) == n.type = "directory"
IsFileNode(n) == n.type = "file"

Range(s) == {s[i] : i \in DOMAIN s}

\* every node of the tree below and including n
RECURSIVE Nodes(_)
Nodes(n) ==
    IF IsDirNode(n) THEN {n} \cup UNION {Nodes(n.children[i]) : i \in DOMAIN n.children}
    ELSE {n}

\* the nodes of the tree at n that lie d levels below n
RECURSIVE NodesAtDepth(_, _)
NodesAtDepth(n, d) ==
    IF d = 0 THEN {n}
    ELSE IF IsDirNode(n)
         THEN UNION {NodesAtDepth(n.children[i], d - 1) : i \in DOMAIN n.children}
         ELSE {}

RECURSIVE Height(_)
Height(n) ==
    IF IsDirNode(n) /\ n.children /= <<>>
    THEN 1 + (CHOOSE h \in {Height(n.children[i]) : i \in DOMAIN n.children} :
                 \A i \in DOMAIN n.children : Height(n.children[i]) <= h)
    ELSE 0

RECURSIVE SumSeq(_)
SumSeq(s) == IF s = <<>> THEN 0 ELSE Head(s) + SumSeq(Tail(s))

RECURSIVE SumSizes(_, _)
SumSizes(f, S) ==
    IF S = {} THEN 0
    ELSE LET x == CHOOSE y \in S : TRUE IN f[x].size + SumSizes(f, S \ {x})

\* the scan the latest call made returned a tree
Returned == last_call.outcome = "returned"
Tree == Val(tree_data)

\* ------------------------------------------------- reading the filesystem
\* a is the entry id or one of the directories above it
RECURSIVE IsUnder(_, _, _)
IsUnder(f, id, a) ==
    IF id = a THEN TRUE
    ELSE IF f[id].parent = 0 THEN FALSE
    ELSE IsUnder(f, f[id].parent, a)

\* the entries strictly below directory a
Below(f, a) == {id \in Ids(f) : id /= a /\ IsUnder(f, id, a)}

\* how many levels entry id lies below a
RECURSIVE DepthBelow(_, _, _)
DepthBelow(f, id, a) == IF id = a THEN 0 ELSE 1 + DepthBelow(f, f[id].parent, a)

\* the entry the latest call was made on
ScannedId == Lookup(fs, Val(last_call.path))

\* every directory from the parent of entry id up to a can be listed
RECURSIVE ParentsListable(_, _, _)
ParentsListable(f, id, a) ==
    IF id = a THEN TRUE
    ELSE ~f[f[id].parent].denied /\ ParentsListable(f, f[id].parent, a)

\* the scan of a can read entry id: the directories above it can be listed
\* and, for a file, stat() works
Accessible(f, id, a) ==
    ParentsListable(f, id, a) /\ (f[id].kind = "file" => ~f[id].denied)

\* ------------------------------------------------------------------- claims

\* C1: after every scan_directory call that returns, the counters of the
\* visualizer equal the aggregates of the returned root node: file_count is
\* root.file_count, folder_count is root.folder_count, total_size is root.size.
C1_CountersEqualRoot ==
    Returned =>
        /\ file_count = Val(last_call.ret).file_count
        /\ folder_count = Val(last_call.ret).folder_count
        /\ total_size = Val(last_call.ret).size

\* a scan with an extension list and a size range returned files and nested
\* directories
C1_Witness ==
    /\ Returned
    /\ ~IsNone(options.extensions)
    /\ ~IsNone(options.size_filter)
    /\ file_count >= 2
    /\ folder_count >= 3
    /\ total_size >= 3

ChildSizes(n) == [i \in DOMAIN n.children |-> n.children[i].size]
ChildFileCounts(n) ==
    [i \in DOMAIN n.children |->
        IF IsDirNode(n.children[i]) THEN n.children[i].file_count ELSE 1]
ChildFolderCounts(n) ==
    [i \in DOMAIN n.children |->
        IF IsDirNode(n.children[i]) THEN n.children[i].folder_count + 1 ELSE 0]

\* C2: in every scanned tree each directory node has size = the sum of its
\* children's sizes, file_count = its file children + its directory children's
\* file_count, folder_count = the sum over its directory children of
\* folder_count + 1; what a filter removed is no child and adds nothing.
C2_DirectoryAggregates ==
    ~IsNone(tree_data) =>
        \A n \in Nodes(Tree) :
            IsDirNode(n) =>
                /\ n.size = SumSeq(ChildSizes(n))
                /\ n.file_count = SumSeq(ChildFileCounts(n))
                /\ n.folder_count = SumSeq(ChildFolderCounts(n))

\* a tree of three levels in which a filter has removed a file of the root
C2_Witness ==
    /\ Returned
    /\ Height(Tree) >= 3
    /\ Tree.folder_count >= 3
    /\ \E id \in Ids(fs) :
          /\ is_file(fs, id)
          /\ fs[id].parent = ScannedId
          /\ ~StartsWithDot(fs[id].name)
          /\ \A i \in DOMAIN Tree.children : Tree.children[i].name /= fs[id].name
    /\ \E i \in DOMAIN Tree.children : IsFileNode(Tree.children[i])

\* C3: scan_directory on a path that does not exist raises FileNotFoundError,
\* on a path that exists and is no directory it raises ValueError, and in both
\* cases the caller gets no tree.
C3_ScanErrors ==
    last_call.outcome /= "none" =>
        /\ ScannedId = 0 =>
              last_call.outcome = "FileNotFoundError" /\ IsNone(last_call.ret)
        /\ (ScannedId /= 0 /\ ~is_dir(fs, ScannedId)) =>
              last_call.outcome = "ValueError" /\ IsNone(last_call.ret)

\* a scan of a missing path has failed on a visualizer that holds the tree of
\* an earlier scan
C3_Witness ==
    /\ last_call.outcome = "FileNotFoundError"
    /\ ScannedId = 0
    /\ ~IsNone(tree_data)
    /\ IsNone(last_call.ret)

NoFilters(cfg) ==
    /\ IsNone(cfg.max_depth)
    /\ IsNone(cfg.extensions)
    /\ IsNone(cfg.size_filter)
    /\ cfg.include_files

NoHiddenBelow(f, a) == \A id \in Below(f, a) : ~StartsWithDot(f[id].name)
AllReadableBelow(f, a) == \A id \in Below(f, a) \cup {a} : ~f[id].denied
FilesBelow(f, a) == {id \in Below(f, a) : f[id].kind = "file"}
DirsBelow(f, a) == {id \in Below(f, a) : f[id].kind = "dir"}

\* C4: a scan without filters (no depth limit, no extension list, no size
\* range, files included) of a structure without hidden entries, all of it
\* readable, gives
\* root.size = the sum of the sizes of all files under the root, the number of
\* those files as total files, and the number of directories strictly below
\* the root as total folders.
C4_UnfilteredTotals ==
    (Returned /\ NoFilters(options) /\ NoHiddenBelow(fs, ScannedId)
       /\ AllReadableBelow(fs, ScannedId)) =>
        /\ Tree.size = SumSizes(fs, FilesBelow(fs, ScannedId))
        /\ total_size = SumSizes(fs, FilesBelow(fs, ScannedId))
        /\ file_count = Cardinality(FilesBelow(fs, ScannedId))
        /\ folder_count = Cardinality(DirsBelow(fs, ScannedId))

\* the shape root/{s, e/{a.t}}: two files, one of them in the one
\* subdirectory
C4_Witness ==
    /\ Returned
    /\ NoFilters(options)
    /\ NoHiddenBelow(fs, ScannedId)
    /\ AllReadableBelow(fs, ScannedId)
    /\ file_count = 2
    /\ folder_count = 1
    /\ total_size > 3
    /\ Height(Tree) = 2

\* no directory from entry id up to, and without, a is skipped as hidden
RECURSIVE ShownBelow(_, _, _, _)
ShownBelow(f, id, a, cfg) ==
    IF id = a THEN TRUE
    ELSE /\ (cfg.show_hidden \/ ~StartsWithDot(f[id].name))
         /\ ShownBelow(f, f[id].parent, a, cfg)

\* C5: with max_depth = 0 the root has no children; with max_depth = k every
\* directory at depth k is in the tree as an empty leaf (no children, size 0,
\* file_count 0, folder_count 0) and no node deeper than k has children.
C5_DepthBound ==
    (Returned /\ ~IsNone(options.max_depth)) =>
        LET k == Val(options.max_depth)
        IN  /\ k = 0 => Tree.children = <<>>
            /\ \A n \in NodesAtDepth(Tree, k) :
                  IsDirNode(n) =>
                      /\ n.children = <<>>
                      /\ n.size = 0
                      /\ n.file_count = 0
                      /\ n.folder_count = 0
            /\ \A id \in DirsBelow(fs, ScannedId) \cup {ScannedId} :
                  (DepthBelow(fs, id, ScannedId) = k /\ ShownBelow(fs, id, ScannedId, options))
                      => \E n \in NodesAtDepth(Tree, k) :
                            IsDirNode(n) /\ n.path = PathOf(fs, id)
            /\ \A d \in (k + 1)..Height(Tree) :
                  \A n \in NodesAtDepth(Tree, d) : IsFileNode(n) \/ n.children = <<>>

\* a scan limited to depth 1 holds, as an empty leaf, a directory that has
\* entries in the filesystem, next to a file of depth 1
C5_Witness ==
    /\ Returned
    /\ options.max_depth = Some(1)
    /\ \E n \in NodesAtDepth(Tree, 1) :
          /\ IsDirNode(n)
          /\ n.children = <<>>
          /\ \E id \in Ids(fs) :
                /\ is_file(fs, id)
                /\ fs[id].parent = Lookup(fs, n.path)
    /\ \E n \in NodesAtDepth(Tree, 1) : IsFileNode(n)

\* the nodes strictly below the root of the scanned tree
NodesBelowRoot == UNION {Nodes(Tree.children[i]) : i \in DOMAIN Tree.children}
FileNodes == {n \in Nodes(Tree) : IsFileNode(n)}
DirNodes == {n \in Nodes(Tree) : IsDirNode(n)}

\* the entries below the scanned root that the scan can read and that no
\* hidden check removes
ShownFiles ==
    {id \in FilesBelow(fs, ScannedId) :
        ShownBelow(fs, id, ScannedId, options) /\ Accessible(fs, id, ScannedId)}
ShownDirs ==
    {id \in DirsBelow(fs, ScannedId) :
        ShownBelow(fs, id, ScannedId, options) /\ Accessible(fs, id, ScannedId)}

\* with no other filter, the counters and the root's aggregates are those of
\* the entries that are not hidden and lie in no hidden directory
HiddenContributeZero ==
    NoFilters(options) =>
        /\ Tree.size = SumSizes(fs, ShownFiles)
        /\ Tree.file_count = Cardinality(ShownFiles)
        /\ Tree.folder_count = Cardinality(ShownDirs)
        /\ total_size = SumSizes(fs, ShownFiles)
        /\ file_count = Cardinality(ShownFiles)
        /\ folder_count = Cardinality(ShownDirs)

\* C6 as stated: with show_hidden = false no node of the tree, the root
\* included, has a name that starts with '.', and hidden entries add nothing
\* to the aggregates and the counters.
C6_NoHiddenNodeAnywhere ==
    (Returned /\ ~options.show_hidden) =>
        /\ \A n \in Nodes(Tree) : ~StartsWithDot(n.name)
        /\ HiddenContributeZero

\* C6, amended: with show_hidden = false no node below the root has a name
\* that starts with '.' or lies under such a name, and hidden entries add
\* nothing to the aggregates and the counters; the root is the directory the
\* caller named, whatever its name.
C6_NoHiddenNodeBelowRoot ==
    (Returned /\ ~options.show_hidden) =>
        /\ \A n \in NodesBelowRoot :
              /\ ~StartsWithDot(n.name)
              /\ Lookup(fs, n.path) /= 0
              /\ ShownBelow(fs, Lookup(fs, n.path), ScannedId, options)
        /\ HiddenContributeZero

\* "/" scanned without filters and without hidden entries: the hidden
\* directory .h with its file and the hidden file .p are skipped
C6_Witness ==
    /\ Returned
    /\ ~options.show_hidden
    /\ NoFilters(options)
    /\ Val(last_call.path) = <<>>
    /\ \E id \in DirsBelow(fs, ScannedId) :
          StartsWithDot(fs[id].name) /\ \E c \in FilesBelow(fs, id) : fs[c].size > 0
    /\ \E id \in FilesBelow(fs, ScannedId) : StartsWithDot(fs[id].name)
    /\ file_count >= 3

\* what the filters other than the extension list and the size range let pass
WithinDepth(id) ==
    IsNone(options.max_depth) \/ DepthBelow(fs, id, ScannedId) <= Val(options.max_depth)
Listed(ext) ==
    \E i \in DOMAIN Val(options.extensions) : Lower(ext) = Lower(Val(options.extensions)[i])
InSizeRange(id) ==
    \/ IsNone(options.size_filter)
    \/ (Val(options.size_filter)[1] <= fs[id].size /\ fs[id].size <= Val(options.size_filter)[2])
FilePresent(id) == \E n \in FileNodes : n.path = PathOf(fs, id)
DirPresent(id) == \E n \in DirNodes : n.path = PathOf(fs, id)

ExtensionFilterHolds ==
    /\ \A n \in FileNodes : Listed(n.extension)
    /\ \A id \in ShownFiles :
          (options.include_files /\ WithinDepth(id) /\ InSizeRange(id)
             /\ Listed(Suffix(fs[id].name)))
          => FilePresent(id)
    /\ \A id \in ShownDirs : WithinDepth(id) => DirPresent(id)

\* C7 as stated: when an extensions list is given, every file node has a
\* listed extension (compared lower-cased), every file with a listed
\* extension that passes the other filters is in the tree, and no directory
\* is missing because of the list.
C7_ExtensionListGiven ==
    (Returned /\ ~IsNone(options.extensions)) => ExtensionFilterHolds

\* C7, amended: the same when the extensions list given is not empty (an
\* empty list filters nothing).
C7_ExtensionListNotEmpty ==
    (Returned /\ ~IsNone(options.extensions) /\ Val(options.extensions) /= <<>>)
        => ExtensionFilterHolds

\* a.p and A.P are both kept by a one-element list, and the directory e is
\* in the tree although its only file a.t was removed
C7_Witness ==
    /\ Returned
    /\ ~IsNone(options.extensions)
    /\ Len(Val(options.extensions)) = 1
    /\ \E n \in FileNodes : n.name = NameAP
    /\ \E n \in FileNodes : n.name = NameUpperAP
    /\ \E n \in DirNodes : n.name = NameE /\ n.children = <<>>
    /\ \E id \in ShownFiles :
          /\ fs[id].name = NameAT
          /\ WithinDepth(id)
          /\ InSizeRange(id)
          /\ ~FilePresent(id)

\* the extension filter as the other claims see it
ExtensionPasses(id) ==
    \/ IsNone(options.extensions)
    \/ Val(options.extensions) = <<>>
    \/ Listed(Suffix(fs[id].name))

\* C8: when a size range (min, max) is given, a file that passes the other
\* filters is in the tree if and only if min <= size <= max, both bounds
\* included.
C8_SizeRangeInclusive ==
    (Returned /\ ~IsNone(options.size_filter)) =>
        \A id \in ShownFiles :
            (options.include_files /\ WithinDepth(id) /\ ExtensionPasses(id)) =>
                (FilePresent(id) <=>
                    (Val(options.size_filter)[1] <= fs[id].size
                       /\ fs[id].size <= Val(options.size_filter)[2]))

\* a file of exactly min bytes and one of exactly max bytes are kept, one
\* below min and one above max are removed
C8_Witness ==
    /\ Returned
    /\ ~IsNone(options.size_filter)
    /\ \E n \in FileNodes : n.size = Val(options.size_filter)[1]
    /\ \E n \in FileNodes : n.size = Val(options.size_filter)[2]
    /\ \E id \in ShownFiles :
          /\ WithinDepth(id) /\ ExtensionPasses(id)
          /\ fs[id].size < Val(options.size_filter)[1]
          /\ ~FilePresent(id)
    /\ \E id \in ShownFiles :
          /\ WithinDepth(id) /\ ExtensionPasses(id)
          /\ fs[id].size > Val(options.size_filter)[2]
          /\ ~FilePresent(id)

\* C9: in every directory node all directory children come before all file
\* children, and within the directories and within the files the lower-cased
\* names do not decrease.
C9_ChildrenSorted ==
    ~IsNone(tree_data) =>
        \A n \in DirNodes :
            \A i, j \in DOMAIN n.children :
                i < j =>
                    /\ ~(IsFileNode(n.children[i]) /\ IsDirNode(n.children[j]))
                    /\ n.children[i].type = n.children[j].type =>
                          ~StrLess(Lower(n.children[j].name), Lower(n.children[i].name))

\* a root with two directories and three files, among them names that differ
\* by case only
C9_Witness ==
    /\ Returned
    /\ Cardinality({i \in DOMAIN Tree.children : IsDirNode(Tree.children[i])}) >= 2
    /\ Cardinality({i \in DOMAIN Tree.children : IsFileNode(Tree.children[i])}) >= 3
    /\ \E i, j \in DOMAIN Tree.children :
          /\ Tree.children[i].name = NameAP
          /\ Tree.children[j].name = NameUpperAP

\* C10: two scans of the same unchanged directory with the same arguments give
\* the same tree (names, sizes, child order, counts), in whatever order the
\* operating system lists the entries each time.
C10_RescanSameTree ==
    [][(Returned /\ last_call'.outcome = "returned" /\ last_call'.path = last_call.path)
          => tree_data' = tree_data]_vars

\* C11: an entry (file or subdirectory) that raises a permission or I/O error
\* during stat or enumeration is skipped: it is no node of the tree and it is
\* counted neither in a node's file_count or folder_count nor in the
\* counters of the visualizer, while the scan returns and holds the entries
\* that can be read.
C11_InaccessibleSkipped ==
    Returned =>
        /\ \A id \in Below(fs, ScannedId) :
              fs[id].denied => (~FilePresent(id) /\ ~DirPresent(id))
        /\ NoFilters(options) =>
              /\ Tree.file_count = Cardinality(ShownFiles)
              /\ file_count = Cardinality(ShownFiles)
              /\ Tree.folder_count = Cardinality({id \in ShownDirs : ~fs[id].denied})
              /\ folder_count = Cardinality({id \in ShownDirs : ~fs[id].denied})

\* the calls that render or export, by the field of outputs they fill
RenderCalls == {"text", "html", "json"}

\* the scan result a renderer reads
scan_result == <<tree_data, root_path, file_count, folder_count, total_size>>

\* a render or export call is made in this step
RenderStep == outputs' /= outputs /\ outputs' /= NoOutputs

\* C12 as stated: every render or export call made before any successful
\* scan fails with an error.
C12_NoDataFails ==
    IsNone(tree_data) =>
        \A k \in RenderCalls :
            ~IsNone(outputs[k]) => Val(outputs[k]).outcome /= "returned"

\* what the calls made on a visualizer without a tree give
NoDataOutcomes ==
    /\ \A k \in {"html", "json"} :
          ~IsNone(outputs[k]) =>
              (Val(outputs[k]).outcome = "ValueError" /\ IsNone(Val(outputs[k]).value))
    /\ ~IsNone(outputs.text) =>
          /\ Val(outputs.text).outcome = "returned"
          /\ Val(outputs.text).value = Some(NoTreeMessage)

\* C12, amended: before any successful scan export_html and export_json fail
\* with ValueError and write nothing, while render_text_tree fails with no
\* error: it returns the text "No tree data available. Please scan a
\* directory first."; none of the calls changes the state of the visualizer,
\* and once a scan has succeeded every render and export call returns.
C12_NoDataExportsFail ==
    [][RenderStep =>
          /\ scan_result' = scan_result
          /\ IsNone(tree_data) => NoDataOutcomes'
          /\ ~IsNone(tree_data) =>
                \A k \in RenderCalls :
                    ~IsNone(outputs'[k]) =>
                        (Val(outputs'[k]).outcome = "returned"
                           /\ ~IsNone(Val(outputs'[k]).value))]_vars

\* the three calls have been made on a visualizer whose only scan failed
C12_Witness ==
    /\ IsNone(tree_data)
    /\ last_call.outcome = "FileNotFoundError"
    /\ ~IsNone(outputs.text)
    /\ ~IsNone(outputs.html)
    /\ ~IsNone(outputs.json)
    /\ Val(outputs.json).outcome = "ValueError"

\* C13: two scans running at once, two scans on the one visualizer of the GUI
\* included, share nothing: each scan that returns finds in the counters the
\* aggregates of the root of its own tree.
C13_ConcurrentScansIndependent ==
    \A t \in Threads :
        threads[t].pc \in {"returned", "done"} =>
            /\ threads[t].seen.file_count = Val(threads[t].node).file_count
            /\ threads[t].seen.folder_count = Val(threads[t].node).folder_count
            /\ threads[t].seen.total_size = Val(threads[t].node).size

\* what a visualizer just created holds after scan_directory(path, **cfg)
FreshScan(path, ord, cfg) ==
    LET r == scan_recursive(fs, Lookup(fs, path), 0, cfg, ord)
    IN  [tree_data |-> Some(r.node), file_count |-> r.file_count,
         folder_count |-> r.folder_count, total_size |-> r.total_size]

\* C14: whatever calls were made before on the same visualizer, with whatever
\* arguments and whether they returned or failed, a scan of directory D with
\* configuration C leaves the tree and the counters a scan of D with C leaves
\* on a new visualizer (the directory being listed in the same order).
C14_ScanIndependentOfHistory ==
    [][(calls' = calls + 1 /\ last_call'.outcome = "returned") =>
          \E ord \in IterOrders :
              [tree_data |-> tree_data', file_count |-> file_count',
               folder_count |-> folder_count', total_size |-> total_size']
                = FreshScan(Val(last_call'.path), ord, options')]_vars

\* a scan has returned files and folders as the last of MaxCalls calls, and
\* at least two calls came before it
C14_Witness ==
    /\ calls = MaxCalls
    /\ calls >= 3
    /\ Returned
    /\ file_count >= 2
    /\ folder_count >= 1
    /\ total_size >= 2

\* the nodes of a tree in pre-order, the children of a directory in the
\* order they are stored in
RECURSIVE PreOrder(_)
RECURSIVE PreOrderFrom(_, _)
PreOrder(node) ==
    IF IsDirNode(node) THEN <<node>> \o PreOrderFrom(node.children, 1) ELSE <<node>>

PreOrderFrom(children, i) ==
    IF i > Len(children) THEN <<>>
    ELSE PreOrder(children[i]) \o PreOrderFrom(children, i + 1)

\* text.split('\n'): the lines lie between the line breaks
LineBreaks(text) == {i \in 1..Len(text) : text[i] = "\n"}

SplitLines(text) ==
    LET breaks == LineBreaks(text)
        Break(k) == CHOOSE i \in breaks : Cardinality({j \in breaks : j <= i}) = k
    IN  [k \in 1..(Cardinality(breaks) + 1) |->
            SubSeq(text,
                   IF k = 1 THEN 1 ELSE Break(k - 1) + 1,
                   IF k = Cardinality(breaks) + 1 THEN Len(text) ELSE Break(k) - 1)]

\* text ends with the characters of tail
EndsWith(text, tail) ==
    Len(text) >= Len(tail) /\ SubSeq(text, Len(text) - Len(tail) + 1, Len(text)) = tail

\* a tree is stored and render_text_tree has returned its text
TextRendered == ~IsNone(tree_data) /\ ~IsNone(outputs.text)
TextLines == SplitLines(Val(Val(outputs.text).value))

ComposedLines ==
    render_node_text(Tree, <<>>, TRUE, StyleChars(render_options.style),
                     render_options.show_size, render_options.show_count,
                     1000 + render_options.max_width)

\* a line longer than max_width is emitted with length max_width and the
\* ellipsis at its end, a line that fits is emitted as composed
CutToWidth(composed, emitted, max_width) ==
    IF Len(composed) > max_width
    THEN Len(emitted) = max_width /\ EndsWith(emitted, Ellipsis)
    ELSE emitted = composed

RECURSIVE ParseDecimal(_)
ParseDecimal(text) ==
    IF text = <<>> THEN 0
    ELSE 10 * ParseDecimal(SubSeq(text, 1, Len(text) - 1))
           + (CHOOSE d \in 0..9 : DigitChars[d + 1] = text[Len(text)])

\* where the character c stands in text (0: nowhere)
IndexOf(text, c) ==
    IF \E i \in DOMAIN text : text[i] = c
    THEN CHOOSE i \in DOMAIN text : text[i] = c /\ \A j \in 1..(i - 1) : text[j] /= c
    ELSE 0

\* the parts of a text "<whole>.<decimals> <unit>"
WholePart(text) == ParseDecimal(SubSeq(text, 1, IndexOf(text, ".") - 1))
Decimals(text) == SubSeq(text, IndexOf(text, ".") + 1, IndexOf(text, " ") - 1)
UnitPart(text) == SubSeq(text, IndexOf(text, " ") + 1, Len(text))

Text_1_0_KB == <<"1", ".", "0", " ", "K", "B">>
Text_1_5_KB == <<"1", ".", "5", " ", "K", "B">>
Text_1_0_MB == <<"1", ".", "0", " ", "M", "B">>

\* format_size has returned for a size below 1024^5
Formatted == ~IsNone(size_text) /\ Len(size_arg) <= 5

\* zero, the unit and the examples of the claim
UnitsAndExamples ==
    /\ size_arg = <<0>> => Val(size_text) = <<"0", " ", "B">>
    /\ size_arg /= <<0>> =>
          /\ UnitPart(Val(size_text)) = size_names[Len(size_arg)]
          /\ Len(Decimals(Val(size_text))) = 1
          /\ Decimals(Val(size_text))[1] \in {DigitChars[d] : d \in 1..10}
    /\ size_arg = <<1, 0>> => Val(size_text) = Text_1_0_KB
    /\ size_arg = <<1, 512>> => Val(size_text) = Text_1_5_KB
    /\ size_arg = <<1, 0, 0>> => Val(size_text) = Text_1_0_MB

\* C17 as stated: format_size(0) is '0 B'; for 0 < n < 1024^5 the unit is
\* stepped up while the value is >= 1024, so that the displayed number is
\* below 1024, with one decimal place; 1024 gives '1.0 KB', 1536 '1.5 KB' and
\* 1048576 '1.0 MB'.
C17_DisplayedBelow1024 ==
    Formatted =>
        /\ UnitsAndExamples
        /\ size_arg /= <<0>> => WholePart(Val(size_text)) < 1024

\* the blocks of children below the root's own block that are shown
ExpandedBlocks(elements) ==
    {i \in DOMAIN elements :
        elements[i].cls = "tree-children" /\ elements[i].parent /= 0 /\ ~elements[i].collapsed}

\* the lines of the directories that are direct children of the root, in
\* document order (the root's block is the second element)
TopLevelDirectories(elements) ==
    LET IsTop(i) == elements[i].cls = "tree-node" /\ elements[i].directory
                      /\ elements[i].parent = 2
    IN  SelectSeq([i \in 1..Len(elements) |-> i], IsTop)

\* the blocks of the first three of them (of all, if they are fewer)
FirstThreeBlocks(elements) ==
    LET tops == TopLevelDirectories(elements)
    IN  {nextElementSibling(elements, tops[k]) :
            k \in {j \in DOMAIN tops :
                     j <= 3 /\ nextElementSibling(elements, tops[j]) /= 0
                       /\ elements[nextElementSibling(elements, tops[j])].cls = "tree-children"}}

\* C18: in the exported document the root's children are visible and the
\* block of children of every directory below the root starts collapsed;
\* after the document-loaded handler has run, the expanded directories are
\* exactly the first three direct children of the root that are directories,
\* and no deeper directory is expanded.
C18_FirstThreeTopLevelExpanded ==
    /\ (~IsNone(outputs.html) /\ ~IsNone(Val(outputs.html).value)) =>
          \E elements \in {Val(Val(outputs.html).value).elements} :
              /\ elements[2].cls = "tree-children" /\ ~elements[2].collapsed
              /\ ExpandedBlocks(elements) = {}
    /\ ~IsNone(outputs.page) =>
          ExpandedBlocks(Val(outputs.page)) = FirstThreeBlocks(Val(outputs.page))

\* the value of the member of a JSON object with the given key
MemberOf(object, key) ==
    (CHOOSE m \in Range(object.members) : m.key = key).value

Keys(object) == [i \in DOMAIN object.members |-> object.members[i].key]

\* the JSON value j has every field of the node, and of its children in
\* their order, and nothing else
RECURSIVE SameNode(_, _)
SameNode(j, node) ==
    /\ j.json = "object"
    /\ MemberOf(j, "name").chars = node.name
    /\ MemberOf(j, "path").chars = PathStr(node.path)
    /\ MemberOf(j, "type").chars = <<node.type>>
    /\ ParseDecimal(MemberOf(j, "size").chars) = node.size
    /\ IF IsDirNode(node)
       THEN /\ Keys(j) = <<"name", "path", "type", "size", "children", "file_count",
                          "folder_count">>
            /\ ParseDecimal(MemberOf(j, "file_count").chars) = node.file_count
            /\ ParseDecimal(MemberOf(j, "folder_count").chars) = node.folder_count
            /\ Len(MemberOf(j, "children").items) = Len(node.children)
            /\ \A i \in DOMAIN node.children :
                  SameNode(MemberOf(j, "children").items[i], node.children[i])
       ELSE /\ Keys(j) = <<"name", "path", "type", "size", "extension", "modified">>
            /\ MemberOf(j, "extension").chars = node.extension
            /\ ParseDecimal(MemberOf(j, "modified").chars) = node.modified

\* export_json has written a document
JsonExported == ~IsNone(outputs.json) /\ ~IsNone(Val(outputs.json).value)
JsonDocument == Val(Val(outputs.json).value)

\* C19: the exported document holds the whole stored tree, node for node and
\* field for field, and its scan-info totals (total files, total folders,
\* total size) are the aggregates of the root of the exported tree.
C19_ExportFaithful ==
    JsonExported =>
        \E tree \in {MemberOf(JsonDocument, "tree_data")},
           info \in {MemberOf(JsonDocument, "scan_info")} :
            /\ SameNode(tree, Tree)
            /\ MemberOf(info, "total_files").chars = MemberOf(tree, "file_count").chars
            /\ MemberOf(info, "total_folders").chars = MemberOf(tree, "folder_count").chars
            /\ MemberOf(info, "total_size").chars = MemberOf(tree, "size").chars

\* an exported document without the time of the export
WithoutScanTime(document) ==
    JObject(<<Member("scan_info",
                     JObject(SelectSeq(MemberOf(document, "scan_info").members,
                                       LAMBDA m : m.key /= "scan_time"))),
              Member("tree_data", MemberOf(document, "tree_data"))>>)

\* two results of export_json that differ at most in scan_time
SameButScanTime(a, b) ==
    /\ a.outcome = b.outcome
    /\ IsNone(a.value) = IsNone(b.value)
    /\ ~IsNone(a.value) => WithoutScanTime(Val(a.value)) = WithoutScanTime(Val(b.value))

\* C20 as stated: a render or export call leaves the stored tree, the root
\* path and the three counters unchanged, and every renderer called again,
\* after whatever other renderers and however often, gives the output it
\* gave before.
C20_RenderersRepeatable ==
    [][RenderStep =>
          /\ scan_result' = scan_result
          /\ \A k \in RenderCalls :
                ~IsNone(outputs[k]) => outputs'[k] = outputs[k]]_vars

\* C20: a render or export call leaves the stored tree, the root path and
\* the three counters unchanged; render_text_tree and export_html called
\* again give the output they gave before, and export_json called again
\* gives the document it gave before except for its scan_time.
C20_RenderersReadOnly ==
    [][RenderStep =>
          /\ scan_result' = scan_result
          /\ \A k \in {"text", "html"} :
                ~IsNone(outputs[k]) => outputs'[k] = outputs[k]
          /\ ~IsNone(outputs.json) =>
                SameButScanTime(Val(outputs'.json), Val(outputs.json))]_vars

\* all three renderers have given an output for a tree of several levels,
\* the last export_json at a later time than the first, and the page has
\* been loaded
C20_Witness ==
    /\ Returned
    /\ Height(Tree) >= 3
    /\ \A k \in RenderCalls :
          ~IsNone(outputs[k]) /\ ~IsNone(Val(outputs[k]).value)
    /\ MemberOf(MemberOf(JsonDocument, "scan_info"), "scan_time").chars = <<"t", "2">>
    /\ ~IsNone(outputs.page)

\* the arguments of the last scan with the three file filters taken away
WithoutFileFilters(cfg) ==
    [cfg EXCEPT !.include_files = TRUE, !.extensions = None, !.size_filter = None]

\* the paths of the directory nodes of a tree
DirPaths(tree) == {n.path : n \in {m \in Nodes(tree) : IsDirNode(m)}}

\* C21: a scan has the directory nodes and the folder count of the scan of
\* the same directory with the same max_depth and show_hidden and no file
\* filter at all (so any two scans that differ only in include_files,
\* extensions or size range agree on both), the folder counter is the number
\* of directory nodes below the root, each counted once, and a directory
\* whose files are all filtered out is in the tree.
C21_FoldersIgnoreFileFilters ==
    Returned =>
        \E r \in {scan_recursive(fs, ScannedId, 0, WithoutFileFilters(options), "forward")} :
            /\ DirPaths(Tree) = DirPaths(r.node)
            /\ folder_count = r.folder_count
            /\ folder_count = Cardinality(DirNodes) - 1
            /\ Tree.folder_count = r.node.folder_count
            /\ \A id \in ShownDirs : WithinDepth(id) => DirPresent(id)

\* a scan with a file filter has returned three folders, among them a
\* directory that holds files none of which is in the tree
C21_Witness ==
    /\ Returned
    /\ options /= WithoutFileFilters(options)
    /\ folder_count = 3
    /\ \E id \in ShownDirs :
          /\ DirPresent(id)
          /\ \E x \in ShownFiles : fs[x].parent = id /\ WithinDepth(x)
          /\ \A x \in FilesBelow(fs, ScannedId) : fs[x].parent = id => ~FilePresent(x)

\* A position in a tree is the sequence of child indices that leads from the
\* root to a node; the root is at <<>>.
RECURSIVE NodeAt(_, _)
NodeAt(tree, pos) ==
    IF pos = <<>> THEN tree ELSE NodeAt(tree.children[Head(pos)], Tail(pos))

\* the positions of a tree in pre-order
RECURSIVE Positions(_, _)
RECURSIVE PositionsFrom(_, _, _)
Positions(node, pos) ==
    IF IsDirNode(node) THEN <<pos>> \o PositionsFrom(node, pos, 1) ELSE <<pos>>

PositionsFrom(node, pos, i) ==
    IF i > Len(node.children) THEN <<>>
    ELSE Positions(node.children[i], Append(pos, i)) \o PositionsFrom(node, pos, i + 1)

\* the node at pos is the final child of its parent; the root, which has no
\* parent, is rendered as a last sibling
FinalChild(tree, pos) ==
    pos = <<>> \/ pos[Len(pos)] = Len(NodeAt(tree, SubSeq(pos, 1, Len(pos) - 1)).children)

\* the prefix of the line at pos: one glyph for every node above it, from
\* the root down to its parent, 'space' below a final child and 'vertical'
\* below any other
RECURSIVE PrefixAt(_, _, _, _)
PrefixAt(tree, pos, k, glyphs) ==
    IF k >= Len(pos) THEN <<>>
    ELSE (IF FinalChild(tree, SubSeq(pos, 1, k)) THEN glyphs.space ELSE glyphs.vertical)
           \o PrefixAt(tree, pos, k + 1, glyphs)

\* the line of the node at pos before it is cut to the width
LineAt(tree, pos, glyphs) ==
    PrefixAt(tree, pos, 0, glyphs)
      \o (IF FinalChild(tree, pos) THEN glyphs.last ELSE glyphs.branch)
      \o <<NodeIcon(NodeAt(tree, pos)), " ">>
      \o NodeLabel(NodeAt(tree, pos), render_options.show_size, render_options.show_count)

GlyphRoles == {"branch", "last", "vertical", "space"}

\* C22: the line of a node is, up to the cut at max_width, the prefix, the
\* 'last' glyph for the final child of its parent and the 'branch' glyph for
\* any other child, the icon and the label; the prefix of a child's line is
\* its parent's prefix followed by 'space' if the parent is a final child
\* and by 'vertical' if it is not (the root has an empty prefix and counts as
\* a final child); the styles unicode, ascii and simple each define the four
\* glyphs, and any other style name renders as unicode.
C22_GlyphsAndPrefixes ==
    /\ DOMAIN styles = {"unicode", "ascii", "simple"}
    /\ \A s \in DOMAIN styles :
          /\ DOMAIN styles[s] = GlyphRoles
          /\ \A g \in GlyphRoles : styles[s][g] /= <<>>
    /\ TextRendered =>
          \E lines \in {TextLines}, positions \in {Positions(Tree, <<>>)},
             glyphs \in {IF render_options.style \in {"unicode", "ascii", "simple"}
                         THEN styles[render_options.style] ELSE styles["unicode"]} :
              /\ Len(lines) = 2 + Len(positions)
              /\ \A k \in DOMAIN positions :
                    lines[k + 2] = Truncate(LineAt(Tree, positions[k], glyphs),
                                            render_options.max_width)

\* a tree was rendered uncut in the ascii style in which a directory that is
\* not a final child has a directory as its final child, and that one has a
\* child: the line of the latter has the prefix space, vertical, space
C22_Witness ==
    /\ TextRendered
    /\ render_options.style = "ascii"
    /\ render_options.max_width = 100
    /\ \E p \in Range(Positions(Tree, <<>>)) :
          /\ Len(p) = 3
          /\ ~FinalChild(Tree, SubSeq(p, 1, 1))
          /\ FinalChild(Tree, SubSeq(p, 1, 2))
          /\ PrefixAt(Tree, p, 0, styles.ascii)
                = styles.ascii.space \o styles.ascii.vertical \o styles.ascii.space

\* the loaded page, and a step in which a click changes it
Page == Val(outputs.page)
ClickStep ==
    ~IsNone(outputs.page) /\ ~IsNone(outputs'.page) /\ outputs'.page /= outputs.page

\* the directory lines of the page that are followed by a block of children
WithBlock(elements) ==
    {i \in DOMAIN elements :
        /\ elements[i].cls = "tree-node" /\ elements[i].directory
        /\ nextElementSibling(elements, i) /= 0
        /\ elements[nextElementSibling(elements, i)].cls = "tree-children"}

\* between the two pages only the block after line i and the toggle text of
\* line i may differ, and the block's visibility does
FlipsAt(before, after, i) ==
    /\ Len(after) = Len(before)
    /\ after[nextElementSibling(before, i)].collapsed
         = ~before[nextElementSibling(before, i)].collapsed
    /\ \A j \in DOMAIN before :
          /\ j /= nextElementSibling(before, i) => after[j].collapsed = before[j].collapsed
          /\ j /= i => after[j].toggle = before[j].toggle
          /\ [after[j] EXCEPT !.collapsed = FALSE, !.toggle = ""]
               = [before[j] EXCEPT !.collapsed = FALSE, !.toggle = ""]

\* C23: a click that changes the page is a click on a directory line with a
\* block of children; it flips the visibility of that block and of nothing
\* else, and it changes the icon of the line, which is one icon while the
\* block is shown and another while it is collapsed. (A click on a directory
\* without children leaves the page as it is.)
C23_ClickTogglesBlockAndIcon ==
    [][ClickStep =>
          \E before \in {Page}, after \in {Val(outputs'.page)} :
              \E i \in WithBlock(before) :
                  /\ FlipsAt(before, after, i)
                  /\ after[i].toggle /= before[i].toggle]_vars

\* no symbolic link of the structure leads to a directory above itself
Acyclic(f) ==
    \A id \in Ids(f) : f[id].kind = "link" => ~IsUnder(f, id, f[id].target)

\* a scan is under way with max_depth = k: no call is at a depth below k, and
\* a call at depth k lists nothing
DepthBounded ==
    ~IsNone(options.max_depth) =>
        \A i \in DOMAIN stack :
            /\ stack[i].depth <= Val(options.max_depth)
            /\ stack[i].depth = i - 1
            /\ stack[i].depth = Val(options.max_depth) => stack[i].items = <<>>

\* a scan has begun on a structure without directory cycles, or with
\* max_depth set on any structure; the scan is over
ScanBegun == calls = 1 /\ (Acyclic(fs) \/ ~IsNone(options.max_depth))
ScanOver == calls = 1 /\ stack = <<>>

\* C24: with max_depth = k no call of the recursion is made below depth k,
\* and a scan that has begun on a structure without directory cycles, or with
\* max_depth set on any structure, comes to its end, and its end is that it
\* returns its tree.
C24_ScanRunsToCompletion ==
    /\ []DepthBounded
    /\ []((ScanBegun /\ ScanOver) => Returned)
    /\ ScanBegun ~> ScanOver

\* the stored counters are the aggregates of the root of the stored tree and
\* the stored root path is the path of that tree
StoredStateConsistent ==
    ~IsNone(tree_data) =>
        /\ file_count = Tree.file_count
        /\ folder_count = Tree.folder_count
        /\ total_size = Tree.size
        /\ root_path = Some(Tree.path)

\* a scan_directory call fails in this step
ScanFails ==
    /\ calls' = calls + 1
    /\ last_call'.outcome \in {"FileNotFoundError", "ValueError"}

\* C25: after every sequence of scan_directory calls a stored tree comes
\* with the counters of its root and with its own path as root path, and a
\* call that fails with FileNotFoundError or ValueError leaves the stored
\* tree, root path and counters as they were.
C25_ConsistentAfterFailure ==
    /\ []StoredStateConsistent
    /\ [][ScanFails => scan_result' = scan_result]_vars

\* the scan threads that have been started and whose _run_scan has not yet
\* come to its end
RunningThreads == {t \in Threads : threads[t].pc \in {"started", "scanning"}}

\* C26: at most one scan thread runs on the shared visualizer at any time,
\* and start_scan starts a thread only when no earlier one is still running.
C26_OneScanThread ==
    /\ [](Cardinality(RunningThreads) <= 1)
    /\ [][\A t \in Threads :
             (threads[t].pc = "idle" /\ threads'[t].pc = "started")
                => RunningThreads = {}]_vars

\* the threads whose scan has been started and whose completion the main
\* loop has not yet handled
InFlight == {t \in Threads : threads[t].pc \in {"started", "scanning", "returned", "raised"}}

\* C27: while the status bar reads "Scan stopped by user" every scan in
\* flight is one that stop_scan has abandoned; when the completion of such a
\* scan is handled, the results area keeps its content, the save buttons
\* keep their state and the status does not become "Scan completed".
C27_StoppedScanDiscarded ==
    [][\A t \in InFlight :
          (gui.status = "Scan stopped by user" /\ threads'[t].pc = "done") =>
              /\ gui'.results = gui.results
              /\ gui'.save_buttons = gui.save_buttons
              /\ gui'.status /= "Scan completed"]_vars

\* C28: for every max_width >= 3 no line of the text render, the header line
\* included, is longer than max_width characters.
C28_NoLineBeyondWidth ==
    (TextRendered /\ render_options.max_width >= 3) =>
        \A k \in DOMAIN TextLines : Len(TextLines[k]) <= render_options.max_width

====
